---- MODULE Spec2Model ----
(***************************************************************************)
(* A model of the health-rec recommendation pipeline:                      *)
(*   services/rerank.py        listwise LLM reranking                      *)
(*   services/ranking.py       relevancy / distance ranking                *)
(*   services/rag.py           RAGService.generate                         *)
(*   services/deduplication.py remove_duplicates[_from_documents]          *)
(*                                                                         *)
(* Conventions.  A Python string is a sequence of one-character strings    *)
(* (or of indivisible words where only whole words are compared).  An      *)
(* Optional value is a sequence of length at most one: <<>> is None and    *)
(* <<v>> is the value v.  A float is an integer in a fixed unit named at   *)
(* its definition.                                                         *)
(***************************************************************************)
EXTENDS Integers, Sequences, FiniteSets, TLC

VARIABLES
    pc,                 \* position of the operation under way
    query,              \* api.data.Query of the request
    config,             \* RerankingConfig of the ReRankingService
    ranking_service,    \* the RankingService: its two weights
    embedding,          \* outcome of the embeddings.create call
    results,            \* QueryResult of services_collection.query
    completion,         \* outcome of the chat.completions.create call under study
    service_documents,  \* list of ServiceDocument held by the operation
    context,            \* context string of _prepare_context
    no_services_found,  \* flag of _prepare_context
    ret,                \* what the operation returned or raised
    calls,              \* collaborator calls made so far, in order
    keep_strategy,      \* argument of remove_duplicates[_from_documents]
    items,              \* list given to remove_duplicates[_from_documents]
    once,               \* its result
    twice,              \* its result when applied to the list it returned
    stages,             \* stages of generate entered so far, in order
    collection,         \* entries of the Chroma collection update_data writes to
    json_data,          \* list of services load_json_data returned
    openai_embedding,   \* whether update_data holds an embedding function
    decisions,          \* what update_data did for each service, in order
    objects             \* the ServiceDocument objects of concurrent requests

vars == <<pc, query, config, ranking_service, embedding, results, completion,
          service_documents, context, no_services_found, ret, calls,
          keep_strategy, items, once, twice, stages, collection, json_data,
          openai_embedding, decisions, objects>>

----------------------------------------------------------------------------
(* Bounds of the model *)

\* longest vector-index answer in the rerank specification
MaxPool == 3
\* longest rerank response, in characters
MaxResponse == 3
\* longest vector-index answer in the generate specification
MaxRetrieved == 2
\* longest classification response, in words
MaxClassification == 3
\* longest list given to the deduplication functions
MaxItems == 3
\* longest list given to rank_services on its own
MaxRanked == 3
\* longest file given to update_data
MaxFile == 2
\* most services of an update_data execution whose processing fails
MaxFailures == 1

----------------------------------------------------------------------------
(* Generic helpers *)

None == <<>>
Some(v) == <<v>>

Min(a, b) == IF a <= b THEN a ELSE b

Abs(a) == IF a < 0 THEN -a ELSE a

\* seq[:k] of Python, k >= 0
Take(seq, k) == SubSeq(seq, 1, Min(k, Len(seq)))

\* all sequences over S of length at most n
SeqsUpTo(S, n) == UNION {[1..k -> S] : k \in 0..n}

\* all sequences of distinct elements of S of length at most n
DistinctSeqsUpTo(S, n) ==
    {s \in SeqsUpTo(S, n) : \A i, j \in 1..Len(s) : i # j => s[i] # s[j]}

\* x in seq
InSeq(x, seq) == \E i \in 1..Len(seq) : seq[i] = x

RECURSIVE Reverse(_)
Reverse(seq) ==
    IF seq = <<>> THEN <<>> ELSE Append(Reverse(Tail(seq)), Head(seq))

\* list.sort(key=..., reverse=...) and sorted(): stable, so entries with
\* equal keys keep their relative order in both directions.  A pair is
\* <<key, entry>>; pair came later in the input than everything in sorted,
\* so it goes after every pair whose key ties with its own
RECURSIVE InsertSorted(_, _, _)
InsertSorted(pair, sorted, descending) ==
    IF sorted = <<>> THEN <<pair>>
    ELSE LET l == sorted[Len(sorted)]
             before == IF descending THEN pair[1] > l[1] ELSE pair[1] < l[1]
         IN IF before
            THEN Append(InsertSorted(pair, SubSeq(sorted, 1, Len(sorted) - 1),
                                     descending), l)
            ELSE Append(sorted, pair)

RECURSIVE SortPairs(_, _, _)
SortPairs(pairs, sorted, descending) ==
    IF pairs = <<>> THEN sorted
    ELSE SortPairs(Tail(pairs), InsertSorted(Head(pairs), sorted, descending),
                   descending)

\* seq sorted by keys, keys[i] being the sort key of seq[i]
StableSort(seq, keys, descending) ==
    LET sorted == SortPairs([i \in 1..Len(seq) |-> <<keys[i], seq[i]>>], <<>>,
                            descending)
    IN [i \in 1..Len(sorted) |-> sorted[i][2]]

----------------------------------------------------------------------------
(* Strings *)

IsSpace(c) == c \in {" ", "\n"}

RECURSIVE LStrip(_)
LStrip(s) == IF s # <<>> /\ IsSpace(Head(s)) THEN LStrip(Tail(s)) ELSE s

RECURSIVE RStrip(_)
RStrip(s) ==
    IF s # <<>> /\ IsSpace(s[Len(s)]) THEN RStrip(SubSeq(s, 1, Len(s) - 1)) ELSE s

\* str.strip()
Strip(s) == RStrip(LStrip(s))

\* str.lower() on the letters the model uses
LowerChar(c) == CASE c = "A" -> "a" [] c = "B" -> "b" [] OTHER -> c

Lower(s) == [i \in 1..Len(s) |-> LowerChar(s[i])]

\* "\n".join(parts)
RECURSIVE Join(_)
Join(parts) ==
    IF parts = <<>> THEN <<>>
    ELSE IF Len(parts) = 1 THEN Head(parts)
    ELSE Head(parts) \o <<"\n">> \o Join(Tail(parts))

----------------------------------------------------------------------------
(* Data model: api.data.ServiceDocument and the vector index's QueryResult *)

\* default precision of create_duplicate_key: decimals kept of a coordinate
precision == 6

\* one degree of latitude or longitude; coordinates are integers in units of
\* one tenth of the last kept decimal (1e-7 degree), so that rounding to
\* `precision` decimals is visible
Deg == 10 ^ (precision + 1)

\* str(value) of a coordinate, as prepare_documents and prepare_document
\* store it in the metadata: the text of the number, held as the number
Str(x) == <<x>>

\* the empty string, stored for a null value
EmptyString == <<>>

\* float(s) of a stored string raises ValueError on the empty string
FloatRaises(s) == s = EmptyString

\* float(s) of the text of a number
float(s) == s[1]

\* truthiness of metadata.get(key): None (no such key) and "" are false,
\* the text of a number is true, that of zero included
TruthyStr(x) == x # None /\ x[1] # EmptyString

\* metadata mapping of a stored service; a missing key is None, the
\* coordinates are None or Some stored string, and PublicName says whether
\* the mapping has the key "PublicName"
Metadata(id, name, latitude, longitude, PublicName) ==
    [id |-> id, name |-> name, latitude |-> latitude, longitude |-> longitude,
     PublicName |-> PublicName, last_updated |-> None]

\* the same mapping with the key "last_updated"
TimedMetadata(metadata, last_updated) ==
    [metadata EXCEPT !.last_updated = last_updated]

\* a stored entry of the collection: id, document text, metadata and the
\* cosine distance (in hundredths) the index reports for the query
Entry(id, document, metadata, distance) ==
    [id |-> id, document |-> document, metadata |-> metadata, distance |-> distance]

ServiceDocument(id, document, metadata, relevancy_score) ==
    [id |-> id, document |-> document, metadata |-> metadata,
     relevancy_score |-> relevancy_score, distance |-> None]

\* entries the collection may hold
Catalogue ==
    { Entry(1, <<"a">>, Metadata(1, Some(<<"A">>), Some(Str(0)), Some(Str(0)), TRUE), 10),
      Entry(2, <<"b">>, Metadata(2, Some(<<"B">>), Some(Str(Deg)), Some(Str(0)), TRUE), 30),
      Entry(3, <<>>, Metadata(3, Some(<<"A">>), None, None, TRUE), 20),
      Entry(4, <<"c">>, Metadata(4, None, Some(Str(2 * Deg)), Some(Str(0)), FALSE), 20),
      \* a second record of the first service: same name up to case and
      \* padding, same place up to the seventh decimal
      Entry(5, <<"d">>, Metadata(5, Some(<<" ", "a">>), Some(Str(2)), Some(Str(4)), TRUE),
            40),
      \* a service whose coordinates were null in the file
      Entry(6, <<"e">>, Metadata(6, Some(<<"B">>), Some(EmptyString),
                                 Some(EmptyString), TRUE), 50) }

\* QueryResult of collection.query for one query embedding: parallel arrays
\* (the [0] element of each field), nearest first as given by the index
QueryResult(entries) ==
    [ids |-> [i \in 1..Len(entries) |-> entries[i].id],
     documents |-> [i \in 1..Len(entries) |-> entries[i].document],
     metadatas |-> [i \in 1..Len(entries) |-> entries[i].metadata],
     distances |-> [i \in 1..Len(entries) |-> entries[i].distance]]

NoResult == QueryResult(<<>>)

\* zip(ids, documents, metadatas, distances) into ServiceDocument objects
_parse_chroma_result(chroma_results) ==
    LET n == Min(Min(Len(chroma_results.ids), Len(chroma_results.documents)),
                 Min(Len(chroma_results.metadatas), Len(chroma_results.distances)))
    IN [i \in 1..n |-> ServiceDocument(chroma_results.ids[i],
                                       chroma_results.documents[i],
                                       chroma_results.metadatas[i],
                                       chroma_results.distances[i])]

----------------------------------------------------------------------------
(* The generative LLM collaborator: chat.completions.create either raises *)
(* or returns a completion whose message content is None or a string      *)

LLMRaises == [raises |-> TRUE, content |-> None]
LLMReturns(content) == [raises |-> FALSE, content |-> content]
NoCompletion == [raises |-> FALSE, content |-> <<"-">>]

Completions(alphabet, maxlen) ==
    {LLMRaises, LLMReturns(None)}
        \cup {LLMReturns(Some(s)) : s \in SeqsUpTo(alphabet, maxlen)}

----------------------------------------------------------------------------
(* Outcome of a call: either a raised exception or a returned value *)

Raised(error) == [raised |-> TRUE, error |-> error, value |-> <<>>]
Returned(value) == [raised |-> FALSE, error |-> "", value |-> value]
Pending == [raised |-> FALSE, error |-> "pending", value |-> <<>>]

\* raise HTTPException(status_code=422, detail=str(e)) on the exception e
HTTPException(e) ==
    [raised |-> TRUE, error |-> "HTTPException_422", value |-> e.error]

\* the first outcome of a list that is an exception
FirstRaised(outcomes) ==
    outcomes[CHOOSE i \in 1..Len(outcomes) :
                 /\ outcomes[i].raised
                 /\ \A j \in 1..(i - 1) : ~outcomes[j].raised]

----------------------------------------------------------------------------
(* api/data.py: Service; services/utils.py: metadata to Service *)

\* a keyword argument of a model, given under the field's name or under its
\* alias (populate_by_name), or the field's default
Field(keywords, name, alias, default) ==
    IF alias \in DOMAIN keywords THEN keywords[alias]
    ELSE IF name \in DOMAIN keywords THEN keywords[name]
    ELSE default

\* api.data.Service(**keywords): id and public_name (alias PublicName) have
\* no default, so a call without them raises ValidationError; the class has
\* no field name, address, metadata or last_updated, and a keyword that names
\* no field is ignored.  Of the other fields the coordinates are kept
Service(keywords) ==
    IF "id" \notin DOMAIN keywords THEN Raised("ValidationError_id")
    ELSE IF {"public_name", "PublicName"} \cap DOMAIN keywords = {}
    THEN Raised("ValidationError_public_name")
    ELSE Returned([id |-> keywords.id,
                   public_name |-> Field(keywords, "public_name", "PublicName", None),
                   latitude |-> Field(keywords, "latitude", "Latitude", None),
                   longitude |-> Field(keywords, "longitude", "Longitude", None)])

\* float(metadata.get(key, 0)) raises ValueError on the empty string
GetFloatRaises(value) == value # None /\ FloatRaises(value[1])

\* float(metadata.get(key, 0))
GetFloat(value) == IF value = None THEN 0 ELSE float(value[1])

\* float(metadata.get(key, 0)) for both keys; a ValueError and values out
\* of range give zeros
_parse_coordinates(metadata) ==
    IF GetFloatRaises(metadata.latitude) \/ GetFloatRaises(metadata.longitude)
    THEN <<0, 0>>
    ELSE LET latitude == GetFloat(metadata.latitude)
             longitude == GetFloat(metadata.longitude)
         IN IF Abs(latitude) > 90 * Deg \/ Abs(longitude) > 180 * Deg
            THEN <<0, 0>> ELSE <<latitude, longitude>>

\* the try branch builds Service(id=, name=, description=, latitude=,
\* longitude=, address=, phone_numbers=, email=, metadata=, last_updated=);
\* when that raises, the except branch builds Service(id=, name=,
\* description=, latitude=, longitude=, address=, phone_numbers=, email=,
\* metadata=), whose arguments are evaluated first: float() of an empty
\* coordinate raises ValueError; what the branch raises propagates
_metadata_to_service(metadata) ==
    LET coordinates == _parse_coordinates(metadata)
        name == IF metadata.name = None THEN <<"Unknown Service">>
                ELSE metadata.name[1]
        service == Service([id |-> metadata.id, name |-> name,
                            description |-> <<"No description available">>,
                            latitude |-> Some(coordinates[1]),
                            longitude |-> Some(coordinates[2]),
                            address |-> None, phone_numbers |-> <<>>,
                            email |-> <<>>, metadata |-> <<>>,
                            last_updated |-> metadata.last_updated])
    IN IF ~service.raised THEN service
       ELSE IF GetFloatRaises(metadata.latitude) \/ GetFloatRaises(metadata.longitude)
       THEN Raised("ValueError_float")
       ELSE Service([id |-> metadata.id,
                     name |-> IF metadata.name = None THEN <<"Unknown">>
                              ELSE metadata.name[1],
                     description |-> <<"No description available">>,
                     latitude |-> Some(GetFloat(metadata.latitude)),
                     longitude |-> Some(GetFloat(metadata.longitude)),
                     address |-> <<"Unknown">>, phone_numbers |-> <<"Unknown">>,
                     email |-> <<>>, metadata |-> <<>>])

----------------------------------------------------------------------------
(* services/rerank.py *)

retrieval_k == 20
output_k == 5

RerankingConfig(k) == [retrieval_k |-> retrieval_k, output_k |-> k]

\* characters of a rerank response: decimal digits, a non-digit, and the
\* superscript two, for which str.isdigit() is true and int() raises
RerankChars == {"0", "1", "2", "3", ">", "sup2"}

isdigit(c) == c \in {"0", "1", "2", "3", "4", "5", "6", "7", "8", "9", "sup2"}

DigitValue(c) ==
    CASE c = "0" -> 0 [] c = "1" -> 1 [] c = "2" -> 2 [] c = "3" -> 3 [] c = "4" -> 4
      [] c = "5" -> 5 [] c = "6" -> 6 [] c = "7" -> 7 [] c = "8" -> 8 [] c = "9" -> 9

\* "".join(c if c.isdigit() else " " for c in response).split():
\* the maximal runs of digit characters, in order
RECURSIVE DigitRuns(_, _)
DigitRuns(response, run) ==
    IF response = <<>> THEN (IF run = <<>> THEN <<>> ELSE <<run>>)
    ELSE IF isdigit(Head(response))
         THEN DigitRuns(Tail(response), Append(run, Head(response)))
         ELSE (IF run = <<>> THEN <<>> ELSE <<run>>) \o DigitRuns(Tail(response), <<>>)

\* int(x) raises ValueError on a run holding a non-decimal digit
IntRaises(x) == \E i \in 1..Len(x) : x[i] = "sup2"

RECURSIVE int(_)
int(x) == IF x = <<>> THEN 0 ELSE 10 * int(SubSeq(x, 1, Len(x) - 1)) + DigitValue(x[Len(x)])

\* a response processing that appends no missing index
MissingIndices_None(i, n, valid_rankings) == <<>>

\* [i for i in set(range(n)) if i not in valid_rankings]; CPython iterates a
\* set of small non-negative integers in increasing order
RECURSIVE MissingIndices(_, _, _)
MissingIndices(i, n, valid_rankings) ==
    IF i >= n THEN <<>>
    ELSE (IF InSeq(i, valid_rankings) THEN <<>> ELSE <<i>>)
             \o MissingIndices(i + 1, n, valid_rankings)

IsValidIndex(i, n) == 0 <= i /\ i < n

_process_ranking_response(response, services, cfg) ==
    LET documents == _parse_chroma_result(services)
        runs == DigitRuns(response, <<>>)
    IN IF \E r \in 1..Len(runs) : IntRaises(runs[r])
       THEN \* except branch: original order
            Take(documents, cfg.output_k)
       ELSE LET rankings == [r \in 1..Len(runs) |-> int(runs[r]) - 1]
                valid_rankings ==
                    SelectSeq(rankings, LAMBDA i : IsValidIndex(i, Len(documents)))
                missing_indices == MissingIndices(0, Len(documents), valid_rankings)
                all == Take(valid_rankings \o missing_indices, cfg.output_k)
            IN [j \in 1..Len(all) |-> documents[all[j] + 1]]

\* lines 138-141: the Service object of each metadata of the index answer
RerankServices(chroma) ==
    [i \in 1..Len(chroma.metadatas) |-> _metadata_to_service(chroma.metadatas[i])]

\* lines 150-161: the LLM call of rerank and what rerank makes of its answer
RerankCompletion(chroma, llm, cfg) ==
    IF llm.raises THEN Raised("rerank_llm")
    ELSE IF llm.content = None THEN Raised("rerank_empty")
    ELSE Returned(_process_ranking_response(llm.content[1], chroma, cfg))

\* ReRankingService.rerank, given what the index and the LLM answer: the
\* Service objects are built before the LLM is asked, and an exception of
\* _metadata_to_service ends the call
rerank(chroma, llm, cfg) ==
    LET services == RerankServices(chroma)
    IN IF \E i \in 1..Len(services) : services[i].raised
       THEN FirstRaised(services)
       ELSE IF Len(services) = 0 THEN Returned(<<>>)
       ELSE RerankCompletion(chroma, llm, cfg)

\* the collaborator calls rerank makes: the index query, and the LLM call
\* when the Service objects were built and there is one at least
RerankCalls(chroma) ==
    LET services == RerankServices(chroma)
    IN IF Len(services) = 0 \/ \E i \in 1..Len(services) : services[i].raised
       THEN <<"index_query">>
       ELSE <<"index_query", "rerank_llm">>

----------------------------------------------------------------------------
(* services/ranking.py *)

\* Config.RELEVANCY_WEIGHT, in percent (default "0.5")
relevancy_weight == 50

\* RankingService.__init__: the weights, in percent
RankingService(w) == [relevancy_weight |-> w, distance_weight |-> 100 - w]

\* Haversine distance in km, rounded to the nearest km, for two locations a
\* whole number of degrees apart (up to a millionth of a degree, which
\* changes the distance by centimetres) within two degrees of the equator:
\* 6371.0088 * c is 111.19 km times the square root of dlat^2 + dlon^2 there
_calculate_distance(location1, location2) ==
    LET dlat == (Abs(location2[1] - location1[1]) + Deg \div 2) \div Deg
        dlon == (Abs(location2[2] - location1[2]) + Deg \div 2) \div Deg
        d2 == dlat * dlat + dlon * dlon
    IN CASE d2 = 0 -> 0
         [] d2 = 1 -> 111
         [] d2 = 2 -> 157
         [] d2 = 4 -> 222
         [] d2 = 5 -> 249
         [] d2 = 8 -> 314

\* ranking score times 10^4: relevancy_score is in hundredths and
\* min(distance / 100, 1) in hundredths is min(distance, 100)
_calculate_ranking_score(self, service) ==
    LET cosine_similarity == 100 - service.relevancy_score
        normalized_distance == Min(service.distance[1], 100)
    IN self.relevancy_weight * cosine_similarity
           + self.distance_weight * (100 - normalized_distance)

\* the relevancy_score of each entry of a list
RelevancyScores(services) ==
    [i \in 1..Len(services) |-> services[i].relevancy_score]

\* a relevancy ranking that leaves the list as it is
_rank_by_relevancy_Unsorted(services) == services

\* services.sort(key=relevancy_score, reverse=True)
_rank_by_relevancy(services) == StableSort(services, RelevancyScores(services), TRUE)

\* lines 61-64: float(service.metadata["latitude"]), then the same for the
\* longitude; the subscript raises KeyError on a missing key and float()
\* raises ValueError on the empty string.  None when both are read
LocationError(service) ==
    IF service.metadata.latitude = None THEN Some("KeyError_latitude")
    ELSE IF FloatRaises(service.metadata.latitude[1]) THEN Some("ValueError_float")
    ELSE IF service.metadata.longitude = None THEN Some("KeyError_longitude")
    ELSE IF FloatRaises(service.metadata.longitude[1]) THEN Some("ValueError_float")
    ELSE None

HasCoordinates(service) == LocationError(service) = None

\* (float(service.metadata["latitude"]), float(service.metadata["longitude"]))
ServiceLocation(service) ==
    <<float(service.metadata.latitude[1]), float(service.metadata.longitude[1])>>

WithDistance(service, user_location) ==
    [service EXCEPT !.distance =
        Some(_calculate_distance(ServiceLocation(service), user_location))]

\* position of the first service whose coordinates cannot be read, one
\* past the end of the list when there is none
FirstUnlocated(services) ==
    IF \A i \in 1..Len(services) : HasCoordinates(services[i])
    THEN Len(services) + 1
    ELSE CHOOSE i \in 1..Len(services) :
             /\ ~HasCoordinates(services[i])
             /\ \A j \in 1..(i - 1) : HasCoordinates(services[j])

\* the loop of lines 60-65 on the objects of the list: every service before
\* the first whose coordinates cannot be read has its distance set
Located(services, user_location) ==
    [i \in 1..Len(services) |->
        IF i < FirstUnlocated(services)
        THEN WithDistance(services[i], user_location) ELSE services[i]]

_rank_by_relevancy_and_distance(self, services, user_location) ==
    IF FirstUnlocated(services) <= Len(services)
    THEN Raised(LocationError(services[FirstUnlocated(services)])[1])
    ELSE LET located == Located(services, user_location)
         IN Returned(StableSort(located,
                                [i \in 1..Len(located) |->
                                    _calculate_ranking_score(self, located[i])],
                                TRUE))

\* user_location is None or Some(<<latitude, longitude>>)
rank_services(self, services, user_location) ==
    IF user_location = None THEN Returned(_rank_by_relevancy(services))
    ELSE _rank_by_relevancy_and_distance(self, services, user_location[1])

\* the list given to rank_services as the caller finds it after the call:
\* the list is sorted in place and is the list returned; when the call
\* raises, the distances set before the exception stay and the order is as
\* it was
RankedInPlace(self, services, user_location) ==
    LET ranked == rank_services(self, services, user_location)
    IN IF ranked.raised THEN Located(services, user_location[1])
       ELSE ranked.value

----------------------------------------------------------------------------
(* services/rag.py *)

\* the embedding collaborator: embeddings.create raises or returns a
\* response whose data list holds the vectors (possibly none)
EmbeddingRaises == [raises |-> TRUE, data |-> <<>>]
EmbeddingReturns(data) == [raises |-> FALSE, data |-> data]
NoEmbedding == [raises |-> FALSE, data |-> <<"-">>]
EmbeddingOutcomes ==
    {EmbeddingRaises, EmbeddingReturns(<<>>), EmbeddingReturns(<<"vector">>)}

\* RAGService._generate_query_embedding that swallows the failure and goes
\* on with an empty vector
_generate_query_embedding_Swallows(created) ==
    IF created.raises \/ created.data = <<>> THEN Returned(<<>>)
    ELSE Returned(created.data[1])

\* RAGService._generate_query_embedding: any exception of the call or of
\* .data[0] is turned into ValueError
_generate_query_embedding(created) ==
    IF created.raises \/ created.data = <<>> THEN Raised("embedding")
    ELSE Returned(created.data[1])

\* Retriever._generate_embedding (services/retriever.py)
_generate_embedding(created) ==
    IF created.raises \/ created.data = <<>> THEN Raised("embedding")
    ELSE Returned(created.data[1])

\* Python truthiness of an Optional[float]: None and 0.0 are false
Truthy(x) == x # None /\ x[1] # 0

\* api.data.Query without its text: the fields latitude, longitude and
\* radius.  The class has no field for a rerank flag, and a keyword of the
\* request that names no field is ignored
Query(latitude, longitude, radius) ==
    [latitude |-> latitude, longitude |-> longitude, radius |-> radius]

RecommendationResponse(message, is_emergency, is_out_of_scope, services, nsf) ==
    [message |-> message, is_emergency |-> is_emergency,
     is_out_of_scope |-> is_out_of_scope, services |-> services,
     no_services_found |-> nsf]

\* services.emergency.get_emergency_services_message()
get_emergency_services_message ==
    <<"If you are experiencing an emergency, please call 9-1-1 immediately.">>

NoServicesContext == <<"No services found within the specified radius.">>

\* doc.distance <= query.radius raises TypeError when distance is None
RadiusFilter(docs, radius) ==
    IF \E i \in 1..Len(docs) : docs[i].distance = None
    THEN Raised("TypeError_distance")
    ELSE LET kept == SelectSeq(docs, LAMBDA doc : doc.distance[1] <= radius)
         IN \* the logging loop reads service.metadata['PublicName']
            IF \E i \in 1..Len(kept) : ~kept[i].metadata.PublicName
            THEN Raised("KeyError_PublicName")
            ELSE Returned(kept)

\* lines 102-106: the user location of a query
UserLocationOf(q) ==
    IF Truthy(q.latitude) /\ Truthy(q.longitude)
    THEN Some(<<q.latitude[1], q.longitude[1]>>) ELSE None

\* lines 102-119: what _retrieve_and_rank_services does with the list
\* reranking_service.rerank returned
RankAndFilter(q, reranked, ranker) ==
    LET ranked == rank_services(ranker, reranked, UserLocationOf(q))
    IN IF ranked.raised THEN ranked
       ELSE IF Truthy(q.radius) THEN RadiusFilter(ranked.value, q.radius[1])
       ELSE ranked

\* the stages of lines 102-119, in the order of the statements:
\* rank_services (lines 107-109), the radius filter (lines 110-118)
RankAndFilterStages(q, reranked, ranker) ==
    IF rank_services(ranker, reranked, UserLocationOf(q)).raised THEN <<"rank">>
    ELSE IF Truthy(q.radius) THEN <<"rank", "geo_filter">>
    ELSE <<"rank">>

\* RAGService._retrieve_and_rank_services, given what the index and the
\* rerank LLM call answer
_retrieve_and_rank_services(q, chroma, llm, cfg, ranker) ==
    LET reranked == rerank(chroma, llm, cfg)
    IN IF reranked.raised THEN reranked
       ELSE RankAndFilter(q, reranked.value, ranker)

\* the stages _retrieve_and_rank_services enters, in the order of its
\* statements: the index query and, when it is made, the LLM call of rerank
\* (line 100), then those of lines 102-119
RetrievalStages(q, chroma, llm, cfg, ranker) ==
    LET reranked == rerank(chroma, llm, cfg)
        reranking == IF InSeq("rerank_llm", RerankCalls(chroma))
                     THEN <<"retrieve", "rerank">> ELSE <<"retrieve">>
    IN IF reranked.raised THEN reranking
       ELSE reranking \o RankAndFilterStages(q, reranked.value, ranker)

\* a _prepare_context that never sets its flag
_prepare_context_NeverFlags(docs) ==
    LET joined == Join([i \in 1..Len(docs) |-> docs[i].document])
    IN IF joined = <<>> THEN <<NoServicesContext, FALSE>> ELSE <<joined, FALSE>>

\* RAGService._prepare_context: <<context, no_services_found>>
_prepare_context(docs) ==
    LET joined == Join([i \in 1..Len(docs) |-> docs[i].document])
    IN IF joined = <<>> THEN <<NoServicesContext, TRUE>> ELSE <<joined, FALSE>>

\* [_metadata_to_service(doc.metadata) for doc in service_documents]: an
\* exception of _metadata_to_service ends the comprehension
_convert_documents_to_services(docs) ==
    LET services == [i \in 1..Len(docs) |-> _metadata_to_service(docs[i].metadata)]
    IN IF \E i \in 1..Len(services) : services[i].raised
       THEN FirstRaised(services)
       ELSE Returned([i \in 1..Len(services) |-> services[i].value])

\* words of a classification response; only whole words are compared
ClassificationWords == {" ", "EMERGENCY", "Response:", "NO_SERVICES_FOUND", "Overview:"}

startswith(s, word) == s # <<>> /\ s[1] = word

\* _generate_response that hands on the text of the LLM for an emergency
\* instead of the static notice
_generate_response_EchoesEmergency(llm) ==
    IF llm.raises THEN Raised("classification_llm")
    ELSE IF llm.content = None THEN Raised("classification_empty")
    ELSE LET response_content == Strip(llm.content[1])
         IN IF response_content = <<"EMERGENCY">>
            THEN Returned(RecommendationResponse(response_content,
                                                 TRUE, FALSE, None, FALSE))
            ELSE IF startswith(response_content, "Response:")
            THEN Returned(RecommendationResponse(response_content,
                                                 FALSE, TRUE, None, FALSE))
            ELSE IF response_content = <<"NO_SERVICES_FOUND">>
            THEN Returned(RecommendationResponse(response_content,
                                                 FALSE, FALSE, None, TRUE))
            ELSE Returned(RecommendationResponse(response_content,
                                                 FALSE, FALSE, None, FALSE))

\* RAGService._generate_response, given what the classification call answers
_generate_response(llm) ==
    IF llm.raises THEN Raised("classification_llm")
    ELSE IF llm.content = None THEN Raised("classification_empty")
    ELSE LET response_content == Strip(llm.content[1])
         IN IF response_content = <<"EMERGENCY">>
            THEN Returned(RecommendationResponse(get_emergency_services_message,
                                                 TRUE, FALSE, None, FALSE))
            ELSE IF startswith(response_content, "Response:")
            THEN Returned(RecommendationResponse(response_content,
                                                 FALSE, TRUE, None, FALSE))
            ELSE IF response_content = <<"NO_SERVICES_FOUND">>
            THEN Returned(RecommendationResponse(response_content,
                                                 FALSE, FALSE, None, TRUE))
            ELSE Returned(RecommendationResponse(response_content,
                                                 FALSE, FALSE, None, FALSE))

\* the services of a response: those of the converted documents, or the
\* exception the conversion raised
WithServices(response, docs, nsf) ==
    LET services == _convert_documents_to_services(docs)
    IN IF services.raised THEN services
       ELSE Returned(RecommendationResponse(response.message, response.is_emergency,
                                            response.is_out_of_scope,
                                            Some(services.value), nsf))

\* BuildRecommendation whose early return carries the flag of
\* _prepare_context along
BuildRecommendation_KeepsFlag(response, docs, nsf) ==
    IF response.is_out_of_scope \/ response.is_emergency
    THEN Returned(RecommendationResponse(response.message, response.is_emergency,
                                         response.is_out_of_scope, Some(<<>>), nsf))
    ELSE WithServices(response, docs, nsf)

\* the tail of RAGService.generate: the response built from the inner
\* response, the ranked documents and the flag of _prepare_context, or the
\* exception _convert_documents_to_services raised
BuildRecommendation(response, docs, nsf) ==
    IF response.is_out_of_scope \/ response.is_emergency
    THEN Returned(RecommendationResponse(response.message, response.is_emergency,
                                         response.is_out_of_scope, Some(<<>>), FALSE))
    ELSE WithServices(response, docs, nsf)

----------------------------------------------------------------------------
(* services/deduplication.py *)

\* name.lower().strip()
normalize_name(name) == Strip(Lower(name))

\* round(x, precision) of a coordinate held in units of 1e-7 degree: the
\* nearest multiple of 10 units (the model's coordinates avoid exact ties)
Round(x) == LET r == x % 10 IN IF r < 5 THEN x - r ELSE x - r + 10

\* str(round(x, precision)) inside the f-string: round() keeps the sign of
\* its argument, so a negative coordinate that rounds to zero is printed
\* "-0.0" and a coordinate that is zero or positive is printed "0.0"
RoundedStr(x) == <<IF x < 0 THEN "-" ELSE "", Abs(Round(x))>>

\* f"{normalized_name}|{rounded_lat}|{rounded_lon}": the three fields can be
\* read back from the string, so the key is modelled as the triple
create_duplicate_key(name, latitude, longitude) ==
    <<normalize_name(name), RoundedStr(latitude), RoundedStr(longitude)>>

\* an element of the list given to remove_duplicates that has the
\* attributes the function reads: service.name, service.latitude,
\* service.longitude (lines 129-131) and s.last_updated (line 121)
NamedService(id, name, latitude, longitude, last_updated) ==
    [id |-> id, name |-> name, latitude |-> latitude, longitude |-> longitude,
     last_updated |-> last_updated]

\* the element has the attribute name; an api.data.Service object has not
HasName(service) == "name" \in DOMAIN service

\* datetime.min, below every timestamp of the model (timestamps are >= 1)
DatetimeMin == 0

\* key of the sort at line 121: s.last_updated or datetime.min
LastUpdatedOrMin(s) == IF s.last_updated = None THEN DatetimeMin ELSE s.last_updated[1]

ServiceKey(service) ==
    create_duplicate_key(service.name, service.latitude, service.longitude)

\* doc.metadata.get("name", "")
DocumentName(doc) == IF doc.metadata.name = None THEN <<>> ELSE doc.metadata.name[1]

\* not (not name or latitude is None or longitude is None)
DocumentKeyed(doc) ==
    /\ DocumentName(doc) # <<>>
    /\ doc.metadata.latitude # None
    /\ doc.metadata.longitude # None

\* float(latitude) or float(longitude) at line 191 raises ValueError
DocumentKeyRaises(doc) ==
    /\ DocumentKeyed(doc)
    /\ FloatRaises(doc.metadata.latitude[1]) \/ FloatRaises(doc.metadata.longitude[1])

DocumentKey(doc) ==
    create_duplicate_key(DocumentName(doc), float(doc.metadata.latitude[1]),
                         float(doc.metadata.longitude[1]))

\* the keys of the dict key_to_services, in insertion order
RECURSIVE InsertionOrder(_, _)
InsertionOrder(services, keys) ==
    IF services = <<>> THEN keys
    ELSE InsertionOrder(Tail(services),
                        IF InSeq(ServiceKey(Head(services)), keys) THEN keys
                        ELSE Append(keys, ServiceKey(Head(services))))

\* lines 109-127: each group sorted most recent first, groups flattened
RECURSIVE FlattenGroups(_, _)
FlattenGroups(keys, services) ==
    IF keys = <<>> THEN <<>>
    ELSE LET service_group ==
                 SelectSeq(services, LAMBDA sv : ServiceKey(sv) = Head(keys))
         IN StableSort(service_group,
                       [i \in 1..Len(service_group) |->
                           LastUpdatedOrMin(service_group[i])], TRUE)
                \o FlattenGroups(Tail(keys), services)

\* lines 105-127: the list the loop of remove_duplicates runs over
ServicesToProcess(services, strategy) ==
    IF strategy = "last" THEN Reverse(services)
    ELSE IF strategy = "most_recent"
    THEN FlattenGroups(InsertionOrder(services, <<>>), services)
    ELSE services

\* lines 173-178: the list the loop of remove_duplicates_from_documents runs over
DocumentsToProcess(documents, strategy) ==
    IF strategy = "last" THEN Reverse(documents)
    ELSE IF strategy = "best_score"
    THEN StableSort(documents, RelevancyScores(documents), FALSE)
    ELSE documents

\* the loop over the list to process: keys[i] is the key of todo[i], None
\* when it has none.  An entry whose key was seen is counted as removed, an
\* entry without a key is kept
RECURSIVE UniqueLoop(_, _, _, _)
UniqueLoop(todo, keys, seen_keys, unique) ==
    IF todo = <<>> THEN [list |-> unique, removed |-> 0]
    ELSE IF Head(keys) = None
    THEN UniqueLoop(Tail(todo), Tail(keys), seen_keys, Append(unique, Head(todo)))
    ELSE IF Head(keys) \notin seen_keys
    THEN UniqueLoop(Tail(todo), Tail(keys), seen_keys \cup {Head(keys)},
                    Append(unique, Head(todo)))
    ELSE LET rest == UniqueLoop(Tail(todo), Tail(keys), seen_keys, unique)
         IN [rest EXCEPT !.removed = @ + 1]

ServiceKeys(services) == [i \in 1..Len(services) |-> Some(ServiceKey(services[i]))]

DocumentKeys(documents) ==
    [i \in 1..Len(documents) |->
        IF DocumentKeyed(documents[i]) /\ ~DocumentKeyRaises(documents[i])
        THEN Some(DocumentKey(documents[i])) ELSE None]

\* remove_duplicates that forgets to reverse the survivors back for "last"
remove_duplicates_NoReverseBack(services, strategy) ==
    IF \E i \in 1..Len(services) : ~HasName(services[i])
    THEN Raised("AttributeError_name")
    ELSE LET todo == ServicesToProcess(services, strategy)
         IN Returned(UniqueLoop(todo, ServiceKeys(todo), {}, <<>>))

\* remove_duplicates comparing raw names and coordinates instead of the
\* normalized key
remove_duplicates_RawKey(services, strategy) ==
    IF \E i \in 1..Len(services) : ~HasName(services[i])
    THEN Raised("AttributeError_name")
    ELSE LET todo == ServicesToProcess(services, strategy)
             r == UniqueLoop(todo,
                             [i \in 1..Len(todo) |->
                                 Some(<<todo[i].name, todo[i].latitude,
                                        todo[i].longitude>>)],
                             {}, <<>>)
         IN Returned(IF strategy = "last" THEN [r EXCEPT !.list = Reverse(@)]
                     ELSE r)

\* remove_duplicates(services, keep_strategy): [list, removed], or the
\* AttributeError of reading service.name from an element without that
\* attribute (every element is read, whatever the strategy)
remove_duplicates(services, strategy) ==
    IF \E i \in 1..Len(services) : ~HasName(services[i])
    THEN Raised("AttributeError_name")
    ELSE LET todo == ServicesToProcess(services, strategy)
             r == UniqueLoop(todo, ServiceKeys(todo), {}, <<>>)
         IN Returned(IF strategy = "last" THEN [r EXCEPT !.list = Reverse(@)]
                     ELSE r)

\* remove_duplicates_from_documents(documents, keep_strategy): [list,
\* removed], or the ValueError of float() on an empty coordinate of a
\* document that has a name and both coordinate keys
remove_duplicates_from_documents(documents, strategy) ==
    IF \E i \in 1..Len(documents) : DocumentKeyRaises(documents[i])
    THEN Raised("ValueError_float")
    ELSE LET todo == DocumentsToProcess(documents, strategy)
             r == UniqueLoop(todo, DocumentKeys(todo), {}, <<>>)
         IN Returned(IF strategy = "last" THEN [r EXCEPT !.list = Reverse(@)]
                     ELSE r)

----------------------------------------------------------------------------
(* Specification of ReRankingService.rerank on its own: the whole call, *)
(* and of _process_ranking_response called on its own                     *)

\* output_k values tried: below, at and above the pool sizes, and the default
OutputKs == {1, 2, output_k}

\* answers of the index: distinct entries, nearest (smallest distance) first
IndexAnswers(entries, n) ==
    {s \in DistinctSeqsUpTo(entries, n) :
        \A i \in 1..(Len(s) - 1) : s[i].distance <= s[i + 1].distance}

RerankPools == IndexAnswers({e \in Catalogue : e.id <= 3}, MaxPool)

\* rerank is called with what the index and the LLM answer;
\* _process_ranking_response is called with a response text (the content of
\* completion) and an index answer
InitRerank ==
    /\ pc \in {"rerank", "_process_ranking_response"}
    /\ \E k \in OutputKs : config = RerankingConfig(k)
    /\ \E pool \in RerankPools : results = QueryResult(pool)
    /\ completion \in Completions(RerankChars, MaxResponse)
    /\ pc = "_process_ranking_response" =>
           ~completion.raises /\ completion.content # None
    /\ embedding = EmbeddingReturns(<<"vector">>)
    /\ query = Query(None, None, None)
    /\ ranking_service = RankingService(relevancy_weight)
    /\ service_documents = <<>>
    /\ context = <<>>
    /\ no_services_found = FALSE
    /\ ret = Pending
    /\ calls = <<>>
    /\ keep_strategy = "first"
    /\ items = <<>>
    /\ once = <<>>
    /\ twice = <<>>
    /\ stages = <<>>
    /\ collection = <<>>
    /\ json_data = <<>>
    /\ openai_embedding = FALSE
    /\ decisions = <<>>
    /\ objects = <<>>

Rerank ==
    /\ pc = "rerank"
    /\ ret' = rerank(results, completion, config)
    /\ calls' = calls \o RerankCalls(results)
    /\ pc' = IF ret'.raised THEN "raised" ELSE "done"
    /\ UNCHANGED <<query, config, ranking_service, embedding, results,
                   completion, service_documents, context, no_services_found,
                   keep_strategy, items, once, twice, stages, collection,
                   json_data, openai_embedding, decisions, objects>>

\* rerank.py lines 90-116: a call of _process_ranking_response(response,
\* services), which makes no collaborator call and raises nothing
ProcessRankingResponse ==
    /\ pc = "_process_ranking_response"
    /\ ret' = Returned(_process_ranking_response(completion.content[1], results,
                                                 config))
    /\ pc' = "completed"
    /\ UNCHANGED <<query, config, ranking_service, embedding, results,
                   completion, service_documents, context, no_services_found,
                   calls, keep_strategy, items, once, twice, stages,
                   collection, json_data, openai_embedding, decisions,
                   objects>>

NextRerank ==
    \/ Rerank
    \/ ProcessRankingResponse

SpecRerank == InitRerank /\ [][NextRerank]_vars

\* the documents of the pool handed to rerank
PoolDocuments == _parse_chroma_result(results)

\* C1: the list rerank returns holds only documents of the pool, holds no
\* document more than once, and is no longer than min(output_k, n)
C1_RerankOutputIsSubsetWithoutRepeats ==
    pc \in {"done", "completed"} =>
        /\ \A j \in 1..Len(ret.value) : InSeq(ret.value[j], PoolDocuments)
        /\ \A i, j \in 1..Len(ret.value) : i # j => ret.value[i] # ret.value[j]
        /\ Len(ret.value) <= Min(config.output_k, Len(PoolDocuments))

\* the LLM of the reranking service fails: it answers a call by raising, or
\* with null or empty content
RerankLLMFails ==
    \/ completion.raises
    \/ completion.content = None
    \/ completion.content = Some(<<>>)

ProcessedResponse ==
    /\ pc = "completed"
    /\ Len(results.metadatas) > 0
    /\ ~completion.raises
    /\ completion.content # None

\* the 0-based pool indices a response names, in the order it names them: its
\* decimal numbers that lie in 1..n, each less one
NamedIndices(response) ==
    LET runs == SelectSeq(DigitRuns(response, <<>>), LAMBDA x : ~IntRaises(x))
        numbers == [r \in 1..Len(runs) |-> int(runs[r])]
        named == SelectSeq(numbers, LAMBDA m : 1 <= m /\ m <= Len(PoolDocuments))
    IN [r \in 1..Len(named) |-> named[r] - 1]

\* the pool indices a response does not name, in pool order
UnnamedIndices(response) ==
    SelectSeq([i \in 1..Len(PoolDocuments) |-> i - 1],
              LAMBDA i : ~InSeq(i, NamedIndices(response)))

\* the named documents in the order named, then the others in pool order, cut
\* to output_k
NamedThenPoolOrder(response) ==
    LET all == Take(NamedIndices(response) \o UnnamedIndices(response),
                    config.output_k)
    IN [j \in 1..Len(all) |-> PoolDocuments[all[j] + 1]]

\* some run of digit characters of the response is rejected by int()
Unparseable(response) ==
    \E r \in 1..Len(DigitRuns(response, <<>>)) : IntRaises(DigitRuns(response, <<>>)[r])

\* C22 as stated: _process_ranking_response returns the named valid indices
\* in the order named followed by every unnamed pool index in pool order, cut
\* to output_k, for every response
C22_NamedFirstThenPoolOrder ==
    ProcessedResponse => ret.value = NamedThenPoolOrder(completion.content[1])

\* C22: for a response whose runs of digits are all decimal numbers,
\* _process_ranking_response returns the named valid indices in the order
\* named followed by every unnamed pool index in pool order, cut to output_k
\* (so the original order when no index is valid); for a response with a run
\* of digits that int() rejects it returns the original order cut to output_k
C22_ParsedNamedFirstThenPoolOrder ==
    ProcessedResponse =>
        IF Unparseable(completion.content[1])
        THEN ret.value = Take(PoolDocuments, config.output_k)
        ELSE ret.value = NamedThenPoolOrder(completion.content[1])

\* a parseable response named a document other than the first of the pool
\* first, and an unnamed document was appended after the named ones
C22_Witness ==
    /\ ProcessedResponse
    /\ ~Unparseable(completion.content[1])
    /\ Len(NamedIndices(completion.content[1])) >= 1
    /\ NamedIndices(completion.content[1])[1] # 0
    /\ Len(ret.value) > Len(NamedIndices(completion.content[1]))

----------------------------------------------------------------------------
(* Specification of RAGService.generate *)

Latitudes == {None, Some(0), Some(Deg)}
Longitudes == {None, Some(Deg)}
\* radius in km
Radii == {None, Some(0), Some(150)}

Queries ==
    {Query(la, lo, r) : la \in Latitudes, lo \in Longitudes, r \in Radii}

GeneratePools == IndexAnswers(Catalogue, MaxRetrieved)

\* texts the LLM returns for an improved query
RefinedQueries == {<<"query">>, <<" ", "query">>}

\* RefineService.improve_query, given what its chat completion answers: any
\* exception of the call, and a null content, become ValueError
improve_query(llm) ==
    IF llm.raises \/ llm.content = None THEN Raised("improve_query")
    ELSE Returned(Strip(llm.content[1]))

\* a request is served by RAGService.generate, called by the /recommend
\* route or, after RefineService.improve_query, by the
\* /refine_recommendations route, or by Retriever.retrieve
InitGenerate ==
    /\ pc \in {"generate", "refine", "retrieve"}
    /\ query \in Queries
    /\ config = RerankingConfig(output_k)
    /\ ranking_service = RankingService(relevancy_weight)
    /\ embedding = NoEmbedding
    /\ results = NoResult
    /\ completion = NoCompletion
    /\ service_documents = <<>>
    /\ context = <<>>
    /\ no_services_found = FALSE
    /\ ret = Pending
    /\ calls = <<>>
    /\ keep_strategy = "first"
    /\ items = <<>>
    /\ once = <<>>
    /\ twice = <<>>
    /\ stages = <<>>
    /\ collection = <<>>
    /\ json_data = <<>>
    /\ openai_embedding = FALSE
    /\ decisions = <<>>
    /\ objects = <<>>

\* the request came through the /refine_recommendations route
ViaRefine == calls # <<>> /\ calls[1] = "refine_llm"

\* routes.py lines 85-91: the chat completion of improve_query; generate is
\* then called with the latitude, longitude and radius of the request
ImproveQuery ==
    /\ pc = "refine"
    /\ \E llm \in {LLMRaises, LLMReturns(None)}
                   \cup {LLMReturns(Some(s)) : s \in RefinedQueries} :
          LET refined_query == improve_query(llm)
          IN /\ pc' = IF refined_query.raised THEN "refine_raised" ELSE "generate"
             /\ ret' = IF refined_query.raised THEN refined_query ELSE ret
    /\ calls' = Append(calls, "refine_llm")
    /\ UNCHANGED <<query, config, ranking_service, embedding, results,
                   completion, service_documents, context, no_services_found,
                   keep_strategy, items, once, twice, stages, collection,
                   json_data, openai_embedding, decisions, objects>>

\* routes.py lines 100-102: an exception of improve_query or of generate
\* becomes an HTTPException with status 422
RefineRouteRaises ==
    /\ pc \in {"refine_raised", "raised"}
    /\ ViaRefine
    /\ ret' = HTTPException(ret)
    /\ pc' = "route_raised"
    /\ UNCHANGED <<query, config, ranking_service, embedding, results,
                   completion, service_documents, context, no_services_found,
                   calls, keep_strategy, items, once, twice, stages,
                   collection, json_data, openai_embedding, decisions,
                   objects>>

\* rag.py line 59: the embedding call
GenerateQueryEmbedding ==
    /\ pc = "generate"
    /\ embedding' \in EmbeddingOutcomes
    /\ calls' = Append(calls, "embedding")
    /\ LET query_embedding == _generate_query_embedding(embedding')
       IN /\ pc' = IF query_embedding.raised THEN "raised" ELSE "embedded"
          /\ ret' = IF query_embedding.raised THEN query_embedding ELSE ret
    /\ stages' = Append(stages, "embed")
    /\ UNCHANGED <<query, config, ranking_service, results, completion,
                   service_documents, context, no_services_found,
                   keep_strategy, items, once, twice, collection, json_data,
                   openai_embedding, decisions, objects>>

\* rag.py line 60: rerank (index query, rerank LLM call), rank, radius filter
RetrieveAndRankServices ==
    /\ pc = "embedded"
    /\ \E pool \in GeneratePools : results' = QueryResult(pool)
    /\ calls' = calls \o RerankCalls(results')
    /\ \E llm \in Completions(RerankChars, MaxResponse) :
          LET outcome == _retrieve_and_rank_services(query, results', llm, config,
                                                     ranking_service)
          IN /\ pc' = IF outcome.raised THEN "raised" ELSE "ranked"
             /\ ret' = IF outcome.raised THEN outcome ELSE ret
             /\ service_documents' = outcome.value
             /\ stages' = stages \o RetrievalStages(query, results', llm, config,
                                                    ranking_service)
    /\ UNCHANGED <<query, config, ranking_service, embedding, completion,
                   context, no_services_found, keep_strategy, items, once,
                   twice, collection, json_data, openai_embedding, decisions,
                   objects>>

\* rag.py line 61
PrepareContext ==
    /\ pc = "ranked"
    /\ context' = _prepare_context(service_documents)[1]
    /\ no_services_found' = _prepare_context(service_documents)[2]
    /\ pc' = "context"
    /\ stages' = Append(stages, "context")
    /\ UNCHANGED <<query, config, ranking_service, embedding, results,
                   completion, service_documents, ret, calls, keep_strategy,
                   items, once, twice, collection, json_data,
                   openai_embedding, decisions, objects>>

\* rag.py lines 62-80: the classification call and the response built from it
GenerateResponse ==
    /\ pc = "context"
    /\ completion' \in Completions(ClassificationWords, MaxClassification)
    /\ calls' = Append(calls, "classification_llm")
    /\ LET response == _generate_response(completion')
           outcome == IF response.raised THEN response
                      ELSE BuildRecommendation(response.value, service_documents,
                                               no_services_found)
       IN /\ pc' = IF outcome.raised THEN "raised" ELSE "done"
          /\ ret' = outcome
    /\ stages' = Append(stages, "classify")
    /\ UNCHANGED <<query, config, ranking_service, embedding, results,
                   service_documents, context, no_services_found,
                   keep_strategy, items, once, twice, collection, json_data,
                   openai_embedding, decisions, objects>>

\* retriever.py line 89: the embedding call of Retriever.retrieve; the
\* ValueError of _generate_embedding is re-raised by retrieve
RetrieverGenerateEmbedding ==
    /\ pc = "retrieve"
    /\ embedding' \in EmbeddingOutcomes
    /\ calls' = Append(calls, "embedding")
    /\ LET query_embedding == _generate_embedding(embedding')
       IN /\ pc' = IF query_embedding.raised THEN "retrieve_raised"
                   ELSE "retrieve_embedded"
          /\ ret' = IF query_embedding.raised THEN query_embedding ELSE ret
    /\ UNCHANGED <<query, config, ranking_service, results, completion,
                   service_documents, context, no_services_found,
                   keep_strategy, items, once, twice, stages, collection,
                   json_data, openai_embedding, decisions, objects>>

\* retriever.py lines 92-98: the index query and the parsed documents
RetrieverQuery ==
    /\ pc = "retrieve_embedded"
    /\ \E pool \in GeneratePools : results' = QueryResult(pool)
    /\ calls' = Append(calls, "index_query")
    /\ service_documents' = _parse_chroma_result(results')
    /\ ret' = Returned(service_documents')
    /\ pc' = "retrieve_done"
    /\ UNCHANGED <<query, config, ranking_service, embedding, completion,
                   context, no_services_found, keep_strategy, items, once,
                   twice, stages, collection, json_data, openai_embedding,
                   decisions, objects>>

\* a location filter that acts on the radius alone, and without a location
\* finds no document within it
RouteLocationFilter_RadiusOnly(q, services) ==
    IF Truthy(q.radius)
    THEN IF Truthy(q.latitude) /\ Truthy(q.longitude)
         THEN SelectSeq(services,
                  LAMBDA service :
                      /\ TruthyStr(service.metadata.latitude)
                      /\ TruthyStr(service.metadata.longitude)
                      /\ _calculate_distance(ServiceLocation(service),
                                             <<q.latitude[1], q.longitude[1]>>)
                             <= q.radius[1])
         ELSE <<>>
    ELSE services

\* routes.py lines 185-200: the location filter of the /retrieve route
RouteLocationFilter(q, services) ==
    IF Truthy(q.latitude) /\ Truthy(q.longitude) /\ Truthy(q.radius)
    THEN SelectSeq(services,
             LAMBDA service :
                 /\ TruthyStr(service.metadata.latitude)
                 /\ TruthyStr(service.metadata.longitude)
                 /\ _calculate_distance(ServiceLocation(service),
                                        <<q.latitude[1], q.longitude[1]>>)
                        <= q.radius[1])
    ELSE services

\* routes.py lines 180-202: the /retrieve route after Retriever.retrieve
\* returned; service_documents keeps what the retriever returned
RetrieveRoute ==
    /\ pc = "retrieve_done"
    /\ ret' = Returned(RouteLocationFilter(query, service_documents))
    /\ pc' = "route_done"
    /\ UNCHANGED <<query, config, ranking_service, embedding, results,
                   completion, service_documents, context, no_services_found,
                   calls, keep_strategy, items, once, twice, stages,
                   collection, json_data, openai_embedding, decisions,
                   objects>>

\* routes.py lines 203-205: an exception of Retriever.retrieve becomes an
\* HTTPException with status 422
RetrieveRouteRaises ==
    /\ pc = "retrieve_raised"
    /\ ret' = HTTPException(ret)
    /\ pc' = "route_raised"
    /\ UNCHANGED <<query, config, ranking_service, embedding, results,
                   completion, service_documents, context, no_services_found,
                   calls, keep_strategy, items, once, twice, stages,
                   collection, json_data, openai_embedding, decisions,
                   objects>>

NextGenerate ==
    \/ ImproveQuery
    \/ RefineRouteRaises
    \/ GenerateQueryEmbedding
    \/ RetrieveAndRankServices
    \/ PrepareContext
    \/ GenerateResponse
    \/ RetrieverGenerateEmbedding
    \/ RetrieverQuery
    \/ RetrieveRoute
    \/ RetrieveRouteRaises

SpecGenerate == InitGenerate /\ [][NextGenerate]_vars

\* generate returned a RecommendationResponse
Responded == pc = "done"

\* generate raised
GenerateRaised == pc = "raised"

\* the classification call was made
AskedClassification == InSeq("classification_llm", calls)

\* generate raised inside _retrieve_and_rank_services
RaisedInRetrieval == GenerateRaised /\ ~AskedClassification /\ ret.error # "embedding"

\* _retrieve_and_rank_services returned its list of documents
Retrieved ==
    \/ pc \in {"ranked", "context", "done"}
    \/ GenerateRaised /\ AskedClassification

C4_EmergencyAndOutOfScopeCarryNoServices ==
    (Responded /\ (ret.value.is_emergency \/ ret.value.is_out_of_scope)) =>
        /\ ret.value.services = Some(<<>>)
        /\ ret.value.is_emergency =>
               ret.value.message = get_emergency_services_message
        /\ ret.value.is_out_of_scope =>
               ret.value.message = Strip(completion.content[1])

\* C4 witness: an out-of-scope response, given with surrounding whitespace,
\* for which _prepare_context had set its flag
C4_Witness ==
    /\ Responded
    /\ ret.value.is_out_of_scope
    /\ no_services_found
    /\ completion.content[1] # Strip(completion.content[1])

\* C5: with zero documents after retrieval and geo-filtering, generate makes
\* no classification call and returns no_services_found = True with the fixed
\* placeholder as message
C5_EmptyResultSkipsClassification ==
    (Retrieved /\ service_documents = <<>>) =>
        /\ ~InSeq("classification_llm", calls)
        /\ Responded =>
               /\ ret.value.no_services_found
               /\ ret.value.message = NoServicesContext

\* C6: generate raises only because the embedding call or the
\* classification call failed
C6_OnlyUpstreamFailuresRaise ==
    GenerateRaised =>
        ret.error \in {"embedding", "classification_llm", "classification_empty"}

\* the embedding collaborator failed: it raised or returned no vector
EmbeddingFailed == embedding.raises \/ embedding.data = <<>>

\* C12: when the embedding call fails, generate and retrieve fail with the
\* embedding error having made that one embedding call and no call after it
\* (the /retrieve and /refine_recommendations routes then answer 422)
C12_EmbeddingFailureStopsRequest ==
    EmbeddingFailed =>
        /\ \/ pc \in {"raised", "retrieve_raised"} /\ ret = Raised("embedding")
           \/ pc = "route_raised" /\ ret = HTTPException(Raised("embedding"))
        /\ calls \in {<<"embedding">>, <<"refine_llm", "embedding">>}

\* C12 witness: generate failed on an embedding response without a vector
C12_Witness ==
    /\ pc = "raised"
    /\ embedding = EmbeddingReturns(<<>>)
    /\ ret = Raised("embedding")

\* the classification call was made and returned
Classified == AskedClassification /\ ~completion.raises

\* C13: a classification response whose content is null, empty or only
\* whitespace makes generate raise
C13_NullOrEmptyClassificationRaises ==
    ( /\ Classified
      /\ \/ completion.content = None
         \/ Strip(completion.content[1]) = <<>> ) =>
        \/ GenerateRaised /\ ret.error = "classification_empty"
        \/ pc = "route_raised"
               /\ ret = HTTPException(Raised("classification_empty"))

\* the classification call answered neither an emergency nor out of scope:
\* generate makes the services of its response from service_documents
NormalOutcome ==
    /\ Classified
    /\ completion.content # None
    /\ ~_generate_response(completion).value.is_emergency
    /\ ~_generate_response(completion).value.is_out_of_scope

\* the index answered with two records that share an identity key
SharedKeyInPool ==
    \E i, j \in 1..Len(PoolDocuments) :
        /\ i # j
        /\ DocumentKeyed(PoolDocuments[i]) /\ ~DocumentKeyRaises(PoolDocuments[i])
        /\ DocumentKeyed(PoolDocuments[j]) /\ ~DocumentKeyRaises(PoolDocuments[j])
        /\ DocumentKey(PoolDocuments[i]) = DocumentKey(PoolDocuments[j])

C16_MissingCoordinatesBecomeZero ==
    (GenerateRaised /\ \E i \in 1..Len(results.metadatas) :
                          \/ results.metadatas[i].latitude = None
                          \/ GetFloatRaises(results.metadatas[i].latitude)) =>
        ret.error \notin {"KeyError_latitude", "KeyError_longitude",
                          "ValueError_float"}

\* C17: at most one of is_emergency, is_out_of_scope and no_services_found
\* is true in a returned response
C17_OutcomesAreExclusive ==
    Responded =>
        /\ ~(ret.value.is_emergency /\ ret.value.is_out_of_scope)
        /\ ~(ret.value.is_emergency /\ ret.value.no_services_found)
        /\ ~(ret.value.is_out_of_scope /\ ret.value.no_services_found)

\* C17 witness: an emergency response for a request whose document list was
\* empty, so that _prepare_context had set its flag
C17_Witness ==
    /\ Responded
    /\ ret.value.is_emergency
    /\ no_services_found
    /\ service_documents = <<>>

\* number of calls made to one collaborator
CallCount(collaborator) ==
    Cardinality({i \in 1..Len(calls) : calls[i] = collaborator})

\* C19: a generate call that has ended, and whose embedding call did not
\* fail, made exactly one embedding call, one index query and one
\* classification call, and no rerank LLM call (no query asks for
\* reranking: Query has no field for it)
C19_CallsPerRequest ==
    ((Responded \/ GenerateRaised) /\ ~EmbeddingFailed) =>
        /\ CallCount("embedding") = 1
        /\ CallCount("index_query") = 1
        /\ CallCount("classification_llm") = 1
        /\ CallCount("rerank_llm") = 0

LocationAndRadiusGiven ==
    query.latitude # None /\ query.longitude # None /\ query.radius # None

\* distance of the pool entry k of the index answer from the query's location
PoolDistance(k) ==
    _calculate_distance(<<float(results.metadatas[k].latitude[1]),
                          float(results.metadatas[k].longitude[1])>>,
                        <<query.latitude[1], query.longitude[1]>>)

RankingKey(doc) ==
    IF doc.distance = None THEN doc.relevancy_score
    ELSE _calculate_ranking_score(ranking_service, doc)

PairwiseDistinctKeys(docs) ==
    \A i, j \in 1..Len(docs) : i # j => RankingKey(docs[i]) # RankingKey(docs[j])

SameDocuments(a, b) ==
    {a[i] : i \in 1..Len(a)} = {b[i] : i \in 1..Len(b)}

\* the lists _process_ranking_response makes of the index answer, one for
\* each text the rerank LLM may answer with
RerankedLists ==
    {_process_ranking_response(llm.content[1], results, config) :
        llm \in {c \in Completions(RerankChars, MaxResponse) :
                    ~c.raises /\ c.content # None}}

\* C30: two runs of the statements that follow the rerank LLM call
\* (_process_ranking_response, then rank_services and the radius filter of
\* _retrieve_and_rank_services) that differ only in the rerank response
\* and return the same set of documents with pairwise distinct ranking
\* keys, return them in the same order, whatever the query
C30_RerankChoosesOnlyTheSet ==
    ProcessedResponse =>
        \A reranked \in RerankedLists : \A q \in Queries :
            LET made == RankAndFilter(q, ret.value, ranking_service)
                other == RankAndFilter(q, reranked, ranking_service)
            IN ( /\ ~made.raised
                 /\ ~other.raised
                 /\ SameDocuments(other.value, made.value)
                 /\ PairwiseDistinctKeys(made.value)
                 /\ PairwiseDistinctKeys(other.value) ) =>
                    other.value = made.value

\* _process_ranking_response returned two documents, another rerank
\* response makes it return them in the opposite order, and the ranking
\* returns both with distinct keys
C30_Witness ==
    /\ ProcessedResponse
    /\ Len(ret.value) = 2
    /\ Reverse(ret.value) \in RerankedLists
    /\ LET made == RankAndFilter(query, ret.value, ranking_service)
       IN /\ ~made.raised
          /\ Len(made.value) = 2
          /\ made.value # ret.value
          /\ PairwiseDistinctKeys(made.value)

\* the document has coordinates and lies farther from the query's location
\* than the query's radius
FartherThanRadius(doc) ==
    /\ HasCoordinates(doc)
    /\ _calculate_distance(ServiceLocation(doc),
                           <<query.latitude[1], query.longitude[1]>>)
           > query.radius[1]

\* C27: when the query carries both a latitude and a longitude, the value 0
\* included, every document _retrieve_and_rank_services returns has a
\* distance, and when it lacks either, none has; and the /retrieve route,
\* given both and a radius, returns no document that has coordinates and
\* lies farther than the radius from that location
C27_LocationIsPresenceOfBoth ==
    /\ Retrieved =>
           \A i \in 1..Len(service_documents) :
               (service_documents[i].distance # None)
                   <=> (query.latitude # None /\ query.longitude # None)
    /\ ( /\ pc = "route_done"
         /\ query.latitude # None /\ query.longitude # None
         /\ Truthy(query.radius) ) =>
           \A i \in 1..Len(ret.value) : ~FartherThanRadius(ret.value[i])

\* C25: the /retrieve route makes no LLM call and returns the retriever's
\* documents in their order, without those it drops; it drops a document only
\* when latitude, longitude and radius are all given and the document lies
\* farther than radius from the location
C25_RetrieveRouteDropsOnlyTheFar ==
    pc = "route_done" =>
        /\ ~InSeq("rerank_llm", calls) /\ ~InSeq("classification_llm", calls)
        /\ ret.value = SelectSeq(service_documents,
                                 LAMBDA doc : InSeq(doc, ret.value))
        /\ \A i \in 1..Len(service_documents) :
               ~InSeq(service_documents[i], ret.value) =>
                   /\ query.latitude # None
                   /\ query.longitude # None
                   /\ query.radius # None
                   /\ FartherThanRadius(service_documents[i])

\* the place of a stage in the order embed, retrieve, rerank, geo-filter,
\* rank, build context, classify
StagePlace(stage) ==
    CASE stage = "embed" -> 1
      [] stage = "retrieve" -> 2
      [] stage = "rerank" -> 3
      [] stage = "geo_filter" -> 4
      [] stage = "rank" -> 5
      [] stage = "context" -> 6
      [] stage = "classify" -> 7

\* C26: generate enters its stages in the order embed, retrieve, rerank,
\* geo-filter, rank, build context, classify, so the radius filter comes
\* before the ranking; and the classification call is its last collaborator
\* call
C26_StagesInOrder ==
    /\ \A i, j \in 1..Len(stages) :
           i < j => StagePlace(stages[i]) < StagePlace(stages[j])
    /\ InSeq("classification_llm", calls) =>
           calls[Len(calls)] = "classification_llm"

----------------------------------------------------------------------------
(* Specification of the deduplication functions: each is applied to a list *)
(* and then to the list it returned                                        *)

KeepStrategies == {"first", "last", "most_recent", "best_score"}

\* name and latitude of the entries tried: the first two share an identity
\* key (case, surrounding space, seventh decimal), the third has another
NamedPlaces == { <<<<"A">>, 436532000, -793832000>>,
                 <<<<" ", "a">>, 436532002, -793832004>>,
                 <<<<"B">>, 436532000, -793832000>> }

Timestamps == {None, Some(1), Some(2)}

\* elements with a name, with or without a timestamp, an element whose
\* name is the empty string, and an api.data.Service object
ServiceShapes ==
    {NamedService(0, np[1], np[2], np[3], t) : np \in NamedPlaces, t \in Timestamps}
        \cup {NamedService(0, <<>>, 436532000, -793832000, None)}
        \cup {Service([id |-> 0, PublicName |-> <<"A">>,
                       Latitude |-> Some(436532000),
                       Longitude |-> Some(-793832000)]).value}

\* metadata lacking the name or the coordinates, or with an empty name
UnkeyedMetadata ==
    { Metadata(0, None, Some(Str(436532000)), Some(Str(-793832000)), TRUE),
      Metadata(0, Some(<<"A">>), None, None, TRUE),
      Metadata(0, Some(<<>>), Some(Str(436532000)), Some(Str(-793832000)), TRUE) }

\* metadata of the named places
KeyedMetadata ==
    {Metadata(0, Some(np[1]), Some(Str(np[2])), Some(Str(np[3])), TRUE) :
        np \in NamedPlaces}

\* metadata of a named service whose coordinates were null in the file
EmptyCoordinatesMetadata ==
    Metadata(0, Some(<<"A">>), Some(EmptyString), Some(EmptyString), TRUE)

\* documents: the named places under two scores, the unidentifiable ones,
\* and two records of the first place that carry a timestamp
DocumentShapes ==
    {ServiceDocument(0, <<"a">>, md, sc) : md \in KeyedMetadata, sc \in {10, 20}}
        \cup {ServiceDocument(0, <<"a">>, md, 10) : md \in UnkeyedMetadata}
        \cup {ServiceDocument(0, <<"a">>, EmptyCoordinatesMetadata, 10)}
        \cup {ServiceDocument(0, <<"a">>,
                               TimedMetadata(Metadata(0, Some(<<"A">>),
                                                      Some(Str(436532000)),
                                                      Some(Str(-793832000)), TRUE), t),
                               10) : t \in {Some(1), Some(2)}}

\* lists over the shapes; the id of an entry is its position in the list
Numbered(list) == [i \in 1..Len(list) |-> [list[i] EXCEPT !.id = i]]

InitDedup ==
    /\ \/ /\ pc = "remove_duplicates"
          /\ \E list \in SeqsUpTo(ServiceShapes, MaxItems) : items = Numbered(list)
       \/ /\ pc = "remove_duplicates_from_documents"
          /\ \E list \in SeqsUpTo(DocumentShapes, MaxItems) : items = Numbered(list)
    /\ keep_strategy \in KeepStrategies
    /\ once = [list |-> <<>>, removed |-> 0]
    /\ twice = [list |-> <<>>, removed |-> 0]
    /\ query = Query(None, None, None)
    /\ ranking_service = RankingService(relevancy_weight)
    /\ config = RerankingConfig(output_k)
    /\ embedding = NoEmbedding
    /\ results = NoResult
    /\ completion = NoCompletion
    /\ service_documents = <<>>
    /\ context = <<>>
    /\ no_services_found = FALSE
    /\ ret = Pending
    /\ calls = <<>>
    /\ stages = <<>>
    /\ collection = <<>>
    /\ json_data = <<>>
    /\ openai_embedding = FALSE
    /\ decisions = <<>>
    /\ objects = <<>>

DedupFrame == UNCHANGED <<query, config, ranking_service, embedding, results,
                          completion, service_documents, context,
                          no_services_found, calls, keep_strategy, items,
                          stages, collection, json_data, openai_embedding,
                          decisions, objects>>

RemoveDuplicates ==
    /\ pc = "remove_duplicates"
    /\ LET outcome == remove_duplicates(items, keep_strategy)
       IN /\ pc' = IF outcome.raised THEN "services_raised" ELSE "services_once"
          /\ ret' = outcome
          /\ once' = IF outcome.raised THEN once ELSE outcome.value
    /\ UNCHANGED twice
    /\ DedupFrame

RemoveDuplicatesAgain ==
    /\ pc = "services_once"
    /\ LET outcome == remove_duplicates(once.list, keep_strategy)
       IN /\ pc' = IF outcome.raised THEN "services_raised" ELSE "services_twice"
          /\ ret' = outcome
          /\ twice' = IF outcome.raised THEN twice ELSE outcome.value
    /\ UNCHANGED once
    /\ DedupFrame

RemoveDuplicatesFromDocuments ==
    /\ pc = "remove_duplicates_from_documents"
    /\ LET outcome == remove_duplicates_from_documents(items, keep_strategy)
       IN /\ pc' = IF outcome.raised THEN "documents_raised" ELSE "documents_once"
          /\ ret' = outcome
          /\ once' = IF outcome.raised THEN once ELSE outcome.value
    /\ UNCHANGED twice
    /\ DedupFrame

RemoveDuplicatesFromDocumentsAgain ==
    /\ pc = "documents_once"
    /\ LET outcome == remove_duplicates_from_documents(once.list, keep_strategy)
       IN /\ pc' = IF outcome.raised THEN "documents_raised" ELSE "documents_twice"
          /\ ret' = outcome
          /\ twice' = IF outcome.raised THEN twice ELSE outcome.value
    /\ UNCHANGED once
    /\ DedupFrame

NextDedup ==
    \/ RemoveDuplicates
    \/ RemoveDuplicatesAgain
    \/ RemoveDuplicatesFromDocuments
    \/ RemoveDuplicatesFromDocumentsAgain

SpecDedup == InitDedup /\ [][NextDedup]_vars

OnServices == pc \in {"services_once", "services_twice"}
OnDocuments == pc \in {"documents_once", "documents_twice"}
AppliedOnce == OnServices \/ OnDocuments
AppliedTwice == pc \in {"services_twice", "documents_twice"}

\* identity key of an entry of either kind, None when it has none
IdentityOf(x) ==
    IF OnServices THEN Some(ServiceKey(x))
    ELSE IF DocumentKeyed(x) THEN Some(DocumentKey(x)) ELSE None

\* C8: the survivors appear in the relative order they had in the input
\* (ids are input positions, so the ids of the output increase)
C8_SurvivorsKeepInputOrder ==
    AppliedOnce =>
        \A i, j \in 1..Len(once.list) : i < j => once.list[i].id < once.list[j].id

\* C9: applying the function with the same strategy to the list it returned
\* yields the same list in the same order and reports 0 removed
C9_DeduplicationIsIdempotent ==
    AppliedTwice => twice.list = once.list /\ twice.removed = 0

\* C9 witness: a second application after a first one that removed entries
\* and left several survivors, under a reordering strategy
C9_Witness ==
    /\ AppliedTwice
    /\ once.removed > 0
    /\ Len(once.list) >= 2
    /\ keep_strategy \in {"last", "most_recent", "best_score"}

\* C10: len(output) + removed_count = len(input), every identity key of the
\* input is held by exactly one output entry, and k entries sharing one key
\* leave 1 survivor with removed_count = k - 1
C10_RemovedCountIsExact ==
    AppliedOnce =>
        /\ Len(once.list) + once.removed = Len(items)
        /\ \A i \in 1..Len(items) :
               IdentityOf(items[i]) # None =>
                   Cardinality({j \in 1..Len(once.list) :
                                   IdentityOf(once.list[j]) = IdentityOf(items[i])}) = 1
        /\ ( /\ items # <<>>
             /\ \A i \in 1..Len(items) :
                    /\ IdentityOf(items[i]) # None
                    /\ IdentityOf(items[i]) = IdentityOf(items[1]) ) =>
               /\ Len(once.list) = 1
               /\ once.removed = Len(items) - 1

\* C10 witness: three entries sharing one identity key through different
\* spellings, of which one survives
C10_Witness ==
    /\ OnServices
    /\ Len(items) = 3
    /\ \A i \in 1..3 : IdentityOf(items[i]) # None
                       /\ IdentityOf(items[i]) = IdentityOf(items[1])
    /\ \E i \in 1..3 : items[i].latitude # items[1].latitude
    /\ once.removed = 2

\* an entry whose identity cannot be determined: a document without a name
\* or coordinates, a service whose name is empty
Unidentifiable(x) ==
    IF OnServices THEN x.name = <<>> ELSE ~DocumentKeyed(x)

\* C15: every input entry whose identity cannot be determined is present in
\* the output
C15_UnidentifiableEntriesAreKept ==
    AppliedOnce =>
        \A i \in 1..Len(items) :
            Unidentifiable(items[i]) =>
                \E j \in 1..Len(once.list) : once.list[j].id = items[i].id

\* last-updated timestamp of an entry of either kind, datetime.min when it
\* has none
LastUpdatedOf(x) ==
    IF OnServices THEN LastUpdatedOrMin(x) ELSE LastUpdatedOrMin(x.metadata)

\* C18: with most_recent the survivor of every identity key is an entry
\* whose timestamp is the latest among the input entries with that key
C18_MostRecentKeepsLatest ==
    (AppliedOnce /\ keep_strategy = "most_recent") =>
        \A j \in 1..Len(once.list) : \A i \in 1..Len(items) :
            ( /\ IdentityOf(items[i]) # None
              /\ IdentityOf(items[i]) = IdentityOf(once.list[j]) ) =>
                LastUpdatedOf(once.list[j]) >= LastUpdatedOf(items[i])

----------------------------------------------------------------------------
(* Specification of RankingService.rank_services on its own: a list of    *)
(* documents is ranked with or without a user location under a weight     *)

\* relevancy weights tried, in percent: pure proximity, the default, pure
\* relevancy
Weights == {0, relevancy_weight, 100}

\* the user location tried: the origin
UserLocations == {None, Some(<<0, 0>>)}

\* documents at 0, 111 and 222 km from the origin, one whose metadata has
\* no coordinates and one whose coordinates are empty strings; cosine
\* distances 0.10 and 0.30
RankShapes ==
    {ServiceDocument(0, <<"a">>, Metadata(0, Some(<<"A">>), c[1], c[2], TRUE), sc) :
        c \in {<<Some(Str(0)), Some(Str(0))>>, <<Some(Str(Deg)), Some(Str(0))>>,
               <<Some(Str(2 * Deg)), Some(Str(0))>>, <<None, None>>,
               <<Some(EmptyString), Some(EmptyString)>>},
        sc \in {10, 30}}

\* the user_location argument, held in the latitude and longitude of query
UserLocation ==
    IF query.latitude = None THEN None
    ELSE Some(<<query.latitude[1], query.longitude[1]>>)

InitRank ==
    /\ pc = "rank_services"
    /\ \E w \in Weights : ranking_service = RankingService(w)
    /\ \E list \in SeqsUpTo(RankShapes, MaxRanked) : items = Numbered(list)
    /\ \E l \in UserLocations :
          query = IF l = None THEN Query(None, None, None)
                  ELSE Query(Some(l[1][1]), Some(l[1][2]), None)
    /\ config = RerankingConfig(output_k)
    /\ embedding = NoEmbedding
    /\ results = NoResult
    /\ completion = NoCompletion
    /\ service_documents = <<>>
    /\ context = <<>>
    /\ no_services_found = FALSE
    /\ ret = Pending
    /\ calls = <<>>
    /\ keep_strategy = "first"
    /\ once = <<>>
    /\ twice = <<>>
    /\ stages = <<>>
    /\ collection = <<>>
    /\ json_data = <<>>
    /\ openai_embedding = FALSE
    /\ decisions = <<>>
    /\ objects = <<>>

\* rank_services on the caller's list items: the list is sorted in place
\* and its objects get their distance, so items is the list after the call
RankServices ==
    /\ pc = "rank_services"
    /\ ret' = rank_services(ranking_service, items, UserLocation)
    /\ items' = RankedInPlace(ranking_service, items, UserLocation)
    /\ pc' = IF ret'.raised THEN "rank_raised" ELSE "ranked_services"
    /\ UNCHANGED <<query, config, ranking_service, embedding, results,
                   completion, service_documents, context, no_services_found,
                   calls, keep_strategy, once, twice, stages,
                   collection, json_data, openai_embedding, decisions,
                   objects>>

NextRank == RankServices

SpecRank == InitRank /\ [][NextRank]_vars

\* ids of a list of documents, in order
Ids(list) == [i \in 1..Len(list) |-> list[i].id]

\* every document given to rank_services has coordinates
AllLocated == \A i \in 1..Len(items) : HasCoordinates(items[i])

\* the list as it was given to rank_services: the id of a document is its
\* position in it, and no document had a distance
GivenItems ==
    [i \in 1..Len(items) |->
        [items[CHOOSE k \in 1..Len(items) : items[k].id = i]
            EXCEPT !.distance = None]]

\* C11: without a user location the documents come most similar first
\* (smallest cosine distance first), which is the order rank_services gives
\* with a user location and relevancy weight 1
C11_OneRelevancyConvention ==
    (pc = "ranked_services" /\ UserLocation = None /\ AllLocated) =>
        /\ \A i, j \in 1..Len(ret.value) :
               i < j => ret.value[i].relevancy_score <= ret.value[j].relevancy_score
        /\ Ids(ret.value) =
               Ids(rank_services(RankingService(100), GivenItems,
                                 Some(<<0, 0>>)).value)

\* C20: with relevancy weight 0 and a user location the documents come
\* nearest first, whatever their distances
C20_WeightZeroIsNearestFirst ==
    ( /\ pc = "ranked_services"
      /\ UserLocation # None
      /\ ranking_service.relevancy_weight = 0 ) =>
        \A i, j \in 1..Len(ret.value) :
            i < j => ret.value[i].distance[1] <= ret.value[j].distance[1]

----------------------------------------------------------------------------
(* update_data.py: values of a JSON service entry and prepare_document *)

\* a JSON value: type "str" (value a string), "int" (value a number),
\* "list" (value a sequence of strings) or "null"
JsonValue(type, value) == [type |-> type, value |-> value]

JsonNull == JsonValue("null", <<>>)

\* the decimal digit of a number below ten
Digit(n) ==
    CHOOSE c \in {"0", "1", "2", "3", "4", "5", "6", "7", "8", "9"} :
        DigitValue(c) = n

\* str(value) of a JSON string or of a one-digit integer, as a string of
\* indivisible words
str(value) ==
    IF value.type = "int" THEN <<Digit(value.value)>> ELSE value.value

\* separator.join(parts)
RECURSIVE JoinWith(_, _)
JoinWith(separator, parts) ==
    IF parts = <<>> THEN <<>>
    ELSE IF Len(parts) = 1 THEN Head(parts)
    ELSE Head(parts) \o <<separator>> \o JoinWith(separator, Tail(parts))

\* the metadata string of a value: the items of a list joined by ", ", the
\* empty string for null, str(value) otherwise
MetadataValue(value) ==
    IF value.type = "list"
    THEN JoinWith(", ", [k \in 1..Len(value.value) |-> <<value.value[k]>>])
    ELSE IF value.type = "null" THEN <<>>
    ELSE str(value)

\* resource_name argument of update_data
resource_name == <<"resource_name">>

\* prepare_document: a service is [id |-> None or Some(value), name |-> value],
\* its keys in that order; the metadata holds the key id only when the service
\* does, written here as None for the absent key
prepare_document(service, resource) ==
    LET metadata ==
            [id |-> IF service.id = None THEN None
                    ELSE Some(MetadataValue(service.id[1])),
             name |-> MetadataValue(service.name),
             resource |-> resource]
        items_ ==
            (IF metadata.id = None THEN <<>> ELSE <<<<"id", metadata.id[1]>>>>)
                \o <<<<"name", metadata.name>>, <<"resource", metadata.resource>>>>
        truthy == SelectSeq(items_, LAMBDA item : item[2] # <<>>)
        doc == JoinWith(" | ", [k \in 1..Len(truthy) |->
                                   <<truthy[k][1], ": ">> \o truthy[k][2]])
        service_id ==
            IF service.id = None THEN <<" ">>
            ELSE IF service.id[1].type = "null" THEN <<"None">>
            ELSE str(service.id[1])
    IN [doc |-> doc, metadata |-> metadata, service_id |-> service_id]

\* calculate_hash: SHA-256 of the JSON text of the content with sorted keys;
\* two contents have one hash exactly when they are equal as dictionaries
calculate_hash(content) == <<"sha256", content>>

----------------------------------------------------------------------------
(* update_data.py: the collection and the processing of one service *)

\* f"generated_{len(ids)}" for the service at position k, from 0, of a file
GeneratedId(k) == <<"generated_", Digit(k)>>

\* ids the entries of the model can have
ServiceIds ==
    {<<"1">>, <<"2">>, <<" ">>, <<"None">>}
        \cup {GeneratedId(k) : k \in 0..(MaxFile - 1)}

\* the Chroma database holds no collection of the name
NoCollection == <<>>

\* a collection maps each id to None or to Some stored entry
EmptyCollection == [id \in ServiceIds |-> None]

\* get_or_create_collection: the collection, created empty when the
\* database has none of the name
get_or_create_collection(coll) ==
    IF coll = NoCollection THEN EmptyCollection ELSE coll

StoredEntry(doc, metadata) == [document |-> doc, metadata |-> metadata]

\* collection.get(ids=[service_id], include=["documents", "metadatas"])
CollectionGet(coll, service_id) ==
    IF coll[service_id] = None
    THEN [ids |-> <<>>, documents |-> <<>>, metadatas |-> <<>>]
    ELSE [ids |-> <<service_id>>,
          documents |-> <<coll[service_id][1].document>>,
          metadatas |-> <<coll[service_id][1].metadata>>]

\* a comparison that finds every existing entry changed
NeedsUpdate_Always(existing_result, doc, metadata) == TRUE

\* needs_update of update_data: lines 124-149
NeedsUpdate(existing_result, doc, metadata) ==
    IF existing_result.ids # <<>>
    THEN \/ calculate_hash(metadata) # calculate_hash(existing_result.metadatas[1])
         \/ calculate_hash([document |-> doc])
                # calculate_hash([document |-> existing_result.documents[1]])
    ELSE TRUE

\* an except branch that lets the exception leave the loop
CaughtFailure_Reraises(coll, issued) ==
    [collection |-> coll, calls |-> issued, failed |-> TRUE, raised |-> TRUE]

\* lines 175-177: the exception of a collaborator call is logged and the loop
\* continues; the collection is as it was before the call that raised
CaughtFailure(coll, issued) ==
    [collection |-> coll, calls |-> issued, failed |-> TRUE, raised |-> FALSE]

\* the body of the loop of update_data for one service, lines 114-177: the
\* collection afterwards, the collaborator calls issued, whether one of them
\* raised, and whether the exception left the loop.  fault names the call
\* that raises: "get", "embedding", "write" or "none"
ProcessService(coll, service, embedding_function, fault) ==
    LET prepared == prepare_document(service, resource_name)
        existing_result == CollectionGet(coll, prepared.service_id)
        needs_update == NeedsUpdate(existing_result, prepared.doc, prepared.metadata)
        embeds == IF embedding_function THEN <<"embedding">> ELSE <<>>
        write == IF existing_result.ids # <<>> THEN "update" ELSE "add"
    IN IF fault = "get" THEN CaughtFailure(coll, <<"get">>)
       ELSE IF ~needs_update
            THEN [collection |-> coll, calls |-> <<"get">>, failed |-> FALSE,
                  raised |-> FALSE]
       ELSE IF embedding_function /\ fault = "embedding"
            THEN CaughtFailure(coll, <<"get", "embedding">>)
       ELSE IF fault = "write"
            THEN CaughtFailure(coll, <<"get">> \o embeds \o <<write>>)
       ELSE [collection |->
                 [coll EXCEPT ![prepared.service_id] =
                     Some(StoredEntry(prepared.doc, prepared.metadata))],
             calls |-> <<"get">> \o embeds \o <<write>>,
             failed |-> FALSE,
             raised |-> FALSE]

----------------------------------------------------------------------------
(* Specification of update_data, run twice with the same file *)

\* the entries a file is built from: two with the same id and different
\* content, one with another id and a null field, two without id of which
\* one has a list field
JsonServices ==
    {[id |-> Some(JsonValue("int", 1)), name |-> JsonValue("str", <<"x">>)],
     [id |-> Some(JsonValue("int", 1)), name |-> JsonValue("str", <<"y">>)],
     [id |-> Some(JsonValue("int", 2)), name |-> JsonNull],
     [id |-> None, name |-> JsonValue("str", <<"x">>)],
     [id |-> None, name |-> JsonValue("list", <<"x", "y">>)]}

JsonFiles == SeqsUpTo(JsonServices, MaxFile)

\* the collection before the first run: empty, or holding what an earlier run
\* stored for the first entry
InitialCollections ==
    {EmptyCollection,
     [EmptyCollection EXCEPT ![<<"1">>] =
         LET prepared == prepare_document(
                             [id |-> Some(JsonValue("int", 1)),
                              name |-> JsonValue("str", <<"x">>)], resource_name)
         IN Some(StoredEntry(prepared.doc, prepared.metadata))]}

Faults == {"none", "get", "embedding", "write"}

\* number of services whose processing failed so far
Failures == Cardinality({k \in 1..Len(decisions) : decisions[k].failed})

\* the operations on the collection: update_data, load_data with
\* remove_duplicates_before_load at its default and with it False,
\* create_collection, delete_collection, and the startup event of the API
Operations ==
    {"update_data", "load_data", "load_data_no_dedup", "create_collection",
     "delete_collection", "startup_event"}

InitUpdate ==
    /\ pc \in Operations
    /\ json_data \in JsonFiles
    /\ collection \in InitialCollections \cup {NoCollection}
    /\ openai_embedding \in BOOLEAN
    /\ decisions = <<>>
    /\ objects = <<>>
    /\ ret = Pending
    /\ query = Query(None, None, None)
    /\ config = RerankingConfig(output_k)
    /\ ranking_service = RankingService(relevancy_weight)
    /\ embedding = NoEmbedding
    /\ results = NoResult
    /\ completion = NoCompletion
    /\ service_documents = <<>>
    /\ context = <<>>
    /\ no_services_found = FALSE
    /\ calls = <<>>
    /\ keep_strategy = "first"
    /\ items = <<>>
    /\ once = <<>>
    /\ twice = <<>>
    /\ stages = <<>>

UpdateFrame == UNCHANGED <<query, config, ranking_service, embedding, results,
                           completion, service_documents, context,
                           no_services_found, calls, keep_strategy, items,
                           once, twice, stages, json_data, openai_embedding,
                           objects>>

\* load_data.py line 140: the id of the service at position k, from 0
DocumentId(service, k) ==
    IF service.id = None THEN GeneratedId(k)
    ELSE IF service.id[1].type = "null" THEN <<"None">>
    ELSE str(service.id[1])

\* prepare_documents: document, metadata and id of each service of the list
prepare_documents(services, resource) ==
    [k \in 1..Len(services) |->
        [prepare_document(services[k], resource)
            EXCEPT !.service_id = DocumentId(services[k], k - 1)]]

\* the keyword arguments of Service(**service_data)
ServiceKeywords(service_data) ==
    IF service_data.id = None THEN [name |-> service_data.name]
    ELSE [id |-> service_data.id[1], name |-> service_data.name]

\* load_data.py lines 207-220: the Service object of each entry of the file,
\* remove_duplicates on them, and the entries again
DeduplicatedData(services_data) ==
    LET services == [k \in 1..Len(services_data) |->
                        Service(ServiceKeywords(services_data[k]))]
    IN IF \E k \in 1..Len(services) : services[k].raised
       THEN FirstRaised(services)
       ELSE LET unique == remove_duplicates(
                              [k \in 1..Len(services) |-> services[k].value],
                              "most_recent")
            IN IF unique.raised THEN unique ELSE Returned(services_data)

\* collection.add(documents, metadatas, ids), when the Chroma client accepts
\* the call: each entry whose id is new is stored under it, the first one
\* when the call gives an id twice; an entry the collection holds already is
\* left as it is.  A client that refuses the call (no ids, an id given twice,
\* an id the collection holds) raises: fault "write" of load_data
CollectionAdd(coll, prepared) ==
    [id \in ServiceIds |->
        IF coll[id] # None THEN coll[id]
        ELSE IF \E k \in 1..Len(prepared) : prepared[k].service_id = id
        THEN LET k == CHOOSE k \in 1..Len(prepared) :
                          /\ prepared[k].service_id = id
                          /\ \A j \in 1..(k - 1) : prepared[j].service_id # id
             IN Some(StoredEntry(prepared[k].doc, prepared[k].metadata))
        ELSE None]

\* the call of load_data that raises
LoadFaults == {"none", "load", "embedding", "write"}

LoadResult(coll, issued, outcome) ==
    [collection |-> coll, calls |-> issued, ret |-> outcome]

\* load_data: the collection afterwards, the collaborator calls issued and
\* what the call returns or raises.  fault names the call that raises:
\* "load" (load_json_data or get_or_create_collection), "embedding",
\* "write" (collection.add) or "none";
\* a file of at most batch_size entries is added in one batch
load_data(coll, file, remove_duplicates_before_load, embedding_function, fault) ==
    LET services_data == IF remove_duplicates_before_load
                         THEN DeduplicatedData(file) ELSE Returned(file)
    IN IF fault = "load" THEN LoadResult(coll, <<>>, Raised("load"))
       ELSE IF services_data.raised THEN LoadResult(coll, <<>>, services_data)
       ELSE LET prepared == prepare_documents(services_data.value, resource_name)
                created == get_or_create_collection(coll)
                embeds == IF embedding_function THEN <<"embedding">> ELSE <<>>
            IN IF embedding_function /\ prepared = <<>>
               THEN LoadResult(created, <<>>, Returned(<<>>))
               ELSE IF embedding_function /\ fault = "embedding"
               THEN LoadResult(created, <<"embedding">>, Raised("embedding"))
               ELSE IF fault = "write"
               THEN LoadResult(created, embeds \o <<"add">>, Raised("add"))
               ELSE LoadResult(CollectionAdd(created, prepared),
                               embeds \o <<"add">>, Returned(<<>>))

WriterFrame == UNCHANGED <<query, config, ranking_service, embedding, results,
                           completion, service_documents, context,
                           no_services_found, keep_strategy, items, once,
                           twice, stages, json_data, openai_embedding,
                           decisions, objects>>

\* load_data.load_data, called with the file, with
\* remove_duplicates_before_load True ("load_data") or False
LoadData ==
    /\ pc \in {"load_data", "load_data_no_dedup"}
    /\ \E fault \in LoadFaults :
          LET outcome == load_data(collection, json_data, pc = "load_data",
                                   openai_embedding, fault)
          IN /\ collection' = outcome.collection
             /\ calls' = calls \o outcome.calls
             /\ ret' = outcome.ret
             /\ pc' = IF outcome.ret.raised THEN "load_raised" ELSE "load_complete"
    /\ WriterFrame

\* manage_data.create_collection: client.create_collection raises when the
\* database holds a collection of the name
CreateCollection ==
    /\ pc = "create_collection"
    /\ IF collection = NoCollection
       THEN /\ collection' = EmptyCollection
            /\ ret' = Returned(<<>>)
            /\ pc' = "collection_created"
       ELSE /\ collection' = collection
            /\ ret' = Raised("create_collection")
            /\ pc' = "manage_raised"
    /\ UNCHANGED calls
    /\ WriterFrame

\* manage_data.delete_collection: client.delete_collection raises when the
\* database holds no collection of the name
DeleteCollection ==
    /\ pc = "delete_collection"
    /\ IF collection # NoCollection
       THEN /\ collection' = NoCollection
            /\ ret' = Returned(<<>>)
            /\ pc' = "collection_deleted"
       ELSE /\ collection' = collection
            /\ ret' = Raised("delete_collection")
            /\ pc' = "manage_raised"
    /\ UNCHANGED calls
    /\ WriterFrame

\* api/main.py line 29
RELOAD_DATA == FALSE

\* api/main.py startup_event: with RELOAD_DATA the collection is deleted and
\* created again, and load_data, called without resource_name, raises
\* TypeError; without it nothing is written
StartupEvent ==
    /\ pc = "startup_event"
    /\ IF collection # NoCollection /\ RELOAD_DATA
       THEN /\ collection' = EmptyCollection
            /\ ret' = Raised("TypeError_resource_name")
            /\ pc' = "startup_raised"
       ELSE /\ collection' = collection
            /\ ret' = Returned(<<>>)
            /\ pc' = "started"
    /\ UNCHANGED calls
    /\ WriterFrame

\* lines 94-98 and 184-186: load_json_data or get_or_create_collection
\* raises, in the first call or in the second (the file is read by every
\* call), and update_data re-raises
UpdateLoadRaises ==
    /\ \/ pc = "update_data" /\ decisions = <<>>
       \/ pc = "update_data_again" /\ Len(decisions) = Len(json_data)
    /\ pc' = "update_raised"
    /\ ret' = Raised("load")
    /\ UNCHANGED <<collection, decisions>>
    /\ UpdateFrame

\* one turn of the loop, lines 113-177, in the run at position run with
\* done services already processed by it
UpdateService(run, done) ==
    /\ pc = run
    /\ done < Len(json_data)
    /\ \E fault \in Faults :
          LET outcome == ProcessService(get_or_create_collection(collection),
                                        json_data[done + 1], openai_embedding,
                                        fault)
          IN /\ fault # "none" => outcome.failed /\ Failures < MaxFailures
             /\ collection' = outcome.collection
             /\ decisions' = Append(decisions,
                                    [service_id |->
                                         prepare_document(json_data[done + 1],
                                                          resource_name).service_id,
                                     calls |-> outcome.calls,
                                     failed |-> outcome.failed])
             /\ pc' = IF outcome.raised THEN "update_raised" ELSE pc
             /\ ret' = IF outcome.raised THEN Raised("service") ELSE ret
    /\ UpdateFrame

UpdateServiceFirstRun == UpdateService("update_data", Len(decisions))

UpdateServiceSecondRun ==
    UpdateService("update_data_again", Len(decisions) - Len(json_data))

\* lines 179-182: the loop is over and update_data returns
UpdateComplete ==
    /\ pc = "update_data"
    /\ Len(decisions) = Len(json_data)
    /\ pc' = "update_complete"
    /\ ret' = Returned(<<>>)
    /\ collection' = get_or_create_collection(collection)
    /\ UNCHANGED decisions
    /\ UpdateFrame

\* update_data is called again with the same arguments
UpdateAgain ==
    /\ pc = "update_complete"
    /\ pc' = "update_data_again"
    /\ ret' = Pending
    /\ UNCHANGED <<collection, decisions>>
    /\ UpdateFrame

UpdateCompleteAgain ==
    /\ pc = "update_data_again"
    /\ Len(decisions) = 2 * Len(json_data)
    /\ pc' = "update_complete_again"
    /\ ret' = Returned(<<>>)
    /\ UNCHANGED <<collection, decisions>>
    /\ UpdateFrame

NextUpdate ==
    \/ LoadData
    \/ CreateCollection
    \/ DeleteCollection
    \/ StartupEvent
    \/ UpdateLoadRaises
    \/ UpdateServiceFirstRun
    \/ UpdateServiceSecondRun
    \/ UpdateComplete
    \/ UpdateAgain
    \/ UpdateCompleteAgain

SpecUpdate == InitUpdate /\ [][NextUpdate]_vars

\* the service whose processing the latest entry of decisions records
LatestService ==
    json_data[((Len(decisions') - 1) % Len(json_data)) + 1]

\* C23: for each service whose processing does not fail, update_data issues
\* add exactly when the collection holds no entry with the service's id,
\* update exactly when it holds one whose document or metadata differs from
\* the prepared ones, and neither (nor an embedding call) exactly when it
\* holds an identical one; never both, never twice
C23_OneWriteDecisionPerService ==
    [][ ( /\ Len(decisions') = Len(decisions) + 1
          /\ ~decisions'[Len(decisions')].failed ) =>
            LET issued == decisions'[Len(decisions')].calls
                prepared == prepare_document(LatestService, resource_name)
                existing == get_or_create_collection(collection)[prepared.service_id]
                identical ==
                    /\ existing # None
                    /\ existing[1].document = prepared.doc
                    /\ existing[1].metadata = prepared.metadata
                writes == SelectSeq(issued, LAMBDA c : c \in {"add", "update"})
            IN /\ InSeq("add", issued) <=> existing = None
               /\ InSeq("update", issued) <=> (existing # None /\ ~identical)
               /\ writes = <<>> <=> identical
               /\ writes = <<>> => ~InSeq("embedding", issued)
               /\ Len(writes) <= 1
               /\ writes # <<>> =>
                      collection'[prepared.service_id]
                          = Some(StoredEntry(prepared.doc, prepared.metadata))
               /\ writes = <<>> =>
                      collection' = get_or_create_collection(collection)
      ]_vars

\* one execution added an entry, updated one and left one as it was
C23_Witness ==
    /\ pc = "update_complete_again"
    /\ \E k \in 1..Len(decisions) : InSeq("add", decisions[k].calls)
    /\ \E k \in 1..Len(decisions) : InSeq("update", decisions[k].calls)
    /\ \E k \in 1..Len(decisions) : decisions[k].calls = <<"get">> /\ ~decisions[k].failed
    /\ Failures = 0

\* the latest entry of json_data at or before position k that has the id of
\* entry k and was processed without failure in the first run is entry k
LastProcessed(k) ==
    /\ ~decisions[k].failed
    /\ \A m \in (k + 1)..Len(json_data) :
           decisions[m].service_id = decisions[k].service_id => decisions[m].failed

\* C24: when the processing of a service fails (collection.get, the
\* embedding call, add or update raising), update_data does not raise: it
\* processes every service of the file and returns, and the collection then
\* holds, for each service processed without failure that no later processed
\* service of the same id follows, the document and metadata prepared from it
C24_ServiceFailureIsIsolated ==
    /\ pc = "update_raised" =>
           /\ ret = Raised("load")
           /\ Len(decisions) \in {0, Len(json_data)}
    /\ pc = "update_complete" =>
           /\ Len(decisions) = Len(json_data)
           /\ ~ret.raised
           /\ \A k \in 1..Len(json_data) :
                  LastProcessed(k) =>
                      collection[decisions[k].service_id]
                          = Some(StoredEntry(
                                prepare_document(json_data[k], resource_name).doc,
                                prepare_document(json_data[k], resource_name).metadata))

\* the first run returned after the processing of its first service failed
\* and its second service was added
C24_Witness ==
    /\ pc = "update_complete"
    /\ Len(decisions) = 2
    /\ decisions[1].failed
    /\ ~decisions[2].failed
    /\ InSeq("add", decisions[2].calls)

\* C29: when no call fails, the second run of update_data with the same file
\* and resource name issues no add, no update and no embedding call
C29_SecondRunWritesNothing ==
    (pc = "update_complete_again" /\ Failures = 0) =>
        \A k \in (Len(json_data) + 1)..Len(decisions) : decisions[k].calls = <<"get">>

----------------------------------------------------------------------------
(* Specification of two generate calls on the one RAGService of routes.py, *)
(* their steps interleaved.  pc, query, embedding, results, completion,    *)
(* service_documents, context, no_services_found and ret hold one value    *)
(* per request; config and ranking_service are the shared instance's.      *)
(* objects maps the address of each ServiceDocument object to its value,   *)
(* and the service_documents of a request is its list of addresses.  Each  *)
(* request runs generate from its first statement.                         *)

Requests == {1, 2}

\* address of the k-th ServiceDocument a request's _parse_chroma_result call
\* constructs
Addresses == Requests \X (1..MaxRetrieved)

\* utils.py lines 82-91: each call constructs new ServiceDocument objects
Allocate(request, k) == <<request, k>>

\* the values of the objects a list of addresses refers to
Deref(heap, list) == [i \in 1..Len(list) |-> heap[list[i]][1]]

AddressesOf(list) == {list[i] : i \in 1..Len(list)}

ConcurrentQueries ==
    {Query(None, None, None),
     Query(Some(Deg), Some(Deg), Some(150)),
     Query(Some(2 * Deg), Some(Deg), Some(150))}

ConcurrentPools == IndexAnswers({e \in Catalogue : e.id <= 2}, MaxRetrieved)

ConcurrentRerankResponses ==
    {LLMRaises, LLMReturns(Some(<<>>)), LLMReturns(Some(<<"2", ">", "1">>))}

ConcurrentClassifications ==
    {LLMRaises, LLMReturns(Some(<<"Overview:">>)),
     LLMReturns(Some(<<"EMERGENCY">>))}

\* a value that generate keeps on the shared RAGService, in a field the
\* call of the first request wrote
LocalOf_OnInstance(locals, r) == locals[1]

\* rag.py lines 60-61: service_documents, context and no_services_found are
\* local variables of the call of generate that serves request r
LocalOf(locals, r) == locals[r]

\* what a request that runs alone gets from its embedding call and
\* _retrieve_and_rank_services: an exception or the list of documents
RetrieveAlone(q, created, chroma, llm) ==
    IF _generate_query_embedding(created).raised
    THEN _generate_query_embedding(created)
    ELSE _retrieve_and_rank_services(q, chroma, llm, config, ranking_service)

\* what generate returns or raises, for a request that runs alone, once it
\* has its list of documents and makes its classification call
RespondAlone(docs, classification) ==
    LET response == _generate_response(classification)
    IN IF response.raised THEN response
       ELSE BuildRecommendation(response.value, docs, _prepare_context(docs)[2])

InitConcurrent ==
    /\ pc = [r \in Requests |-> "generate"]
    /\ query \in [Requests -> ConcurrentQueries]
    /\ embedding = [r \in Requests |-> NoEmbedding]
    /\ results = [r \in Requests |-> NoResult]
    /\ completion = [r \in Requests |->
                        [rerank |-> NoCompletion, classification |-> NoCompletion]]
    /\ service_documents = [r \in Requests |-> <<>>]
    /\ context = [r \in Requests |-> <<>>]
    /\ no_services_found = [r \in Requests |-> FALSE]
    /\ ret = [r \in Requests |-> Pending]
    /\ objects = [a \in Addresses |-> None]
    /\ config = RerankingConfig(output_k)
    /\ ranking_service = RankingService(relevancy_weight)
    /\ calls = <<>>
    /\ keep_strategy = "first"
    /\ items = <<>>
    /\ once = <<>>
    /\ twice = <<>>
    /\ stages = <<>>
    /\ collection = <<>>
    /\ json_data = <<>>
    /\ openai_embedding = FALSE
    /\ decisions = <<>>

ConcurrentFrame == UNCHANGED <<query, config, ranking_service, calls,
                               keep_strategy, items, once, twice, stages,
                               collection, json_data, openai_embedding,
                               decisions>>

\* rag.py line 59 for request r
ConcurrentEmbed(r) ==
    /\ pc[r] = "generate"
    /\ \E created \in EmbeddingOutcomes :
          LET query_embedding == _generate_query_embedding(created)
          IN /\ embedding' = [embedding EXCEPT ![r] = created]
             /\ pc' = [pc EXCEPT ![r] = IF query_embedding.raised THEN "raised"
                                        ELSE "embedded"]
             /\ ret' = [ret EXCEPT ![r] = IF query_embedding.raised
                                          THEN query_embedding ELSE @]
    /\ UNCHANGED <<results, completion, service_documents, context,
                   no_services_found, objects>>
    /\ ConcurrentFrame

\* rag.py line 100 for request r: rerank queries the index and raises, or
\* returns the empty list, or returns the list _process_ranking_response
\* makes of the ServiceDocument objects _parse_chroma_result built
ConcurrentRerank(r) ==
    /\ pc[r] = "embedded"
    /\ \E pool \in ConcurrentPools, llm \in ConcurrentRerankResponses :
          LET chroma == QueryResult(pool)
              reranked == rerank(chroma, llm, config)
              documents == _parse_chroma_result(chroma)
              built == IF reranked.raised \/ Len(pool) = 0 THEN 0
                       ELSE Len(documents)
              AddressOf(doc) ==
                  Allocate(r, CHOOSE k \in 1..built : documents[k] = doc)
          IN /\ results' = [results EXCEPT ![r] = chroma]
             /\ completion' = IF InSeq("rerank_llm", RerankCalls(chroma))
                              THEN [completion EXCEPT ![r].rerank = llm]
                              ELSE completion
             /\ objects' = [a \in Addresses |->
                               IF \E k \in 1..built : a = Allocate(r, k)
                               THEN Some(documents[CHOOSE k \in 1..built :
                                                       a = Allocate(r, k)])
                               ELSE objects[a]]
             /\ service_documents' =
                    [service_documents EXCEPT ![r] =
                        IF reranked.raised THEN <<>>
                        ELSE [i \in 1..Len(reranked.value) |->
                                 AddressOf(reranked.value[i])]]
             /\ pc' = [pc EXCEPT ![r] = IF reranked.raised THEN "raised"
                                        ELSE "reranked"]
             /\ ret' = [ret EXCEPT ![r] = IF reranked.raised THEN reranked ELSE @]
    /\ UNCHANGED <<embedding, context, no_services_found>>
    /\ ConcurrentFrame

\* rag.py lines 102-109 for request r: rank_services sets the distance of
\* each object of the request's list and sorts the list in place
ConcurrentRank(r) ==
    /\ pc[r] = "reranked"
    /\ LET user_location == UserLocationOf(query[r])
           list == service_documents[r]
           ranked == rank_services(ranking_service, Deref(objects, list),
                                   user_location)
           after == RankedInPlace(ranking_service, Deref(objects, list),
                                  user_location)
       IN IF ranked.raised
          THEN /\ pc' = [pc EXCEPT ![r] = "raised"]
               /\ ret' = [ret EXCEPT ![r] = ranked]
               /\ objects' =
                      [a \in Addresses |->
                          IF a \in AddressesOf(list)
                          THEN Some(after[CHOOSE i \in 1..Len(list) : list[i] = a])
                          ELSE objects[a]]
               /\ UNCHANGED service_documents
          ELSE /\ objects' =
                      [a \in Addresses |->
                          IF a \in AddressesOf(list)
                             /\ user_location # None
                          THEN Some(WithDistance(objects[a][1], user_location[1]))
                          ELSE objects[a]]
               /\ service_documents' =
                      [service_documents EXCEPT ![r] =
                          [i \in 1..Len(ranked.value) |->
                              CHOOSE a \in AddressesOf(list) :
                                  objects'[a][1] = ranked.value[i]]]
               /\ pc' = [pc EXCEPT ![r] = "ranked"]
               /\ UNCHANGED ret
    /\ UNCHANGED <<embedding, results, completion, context, no_services_found>>
    /\ ConcurrentFrame

\* rag.py lines 110-119 for request r: the radius filter reads the distance
\* of each object of the request's list
ConcurrentFilter(r) ==
    /\ pc[r] = "ranked"
    /\ LET list == service_documents[r]
           filtered == IF Truthy(query[r].radius)
                       THEN RadiusFilter(Deref(objects, list), query[r].radius[1])
                       ELSE Returned(Deref(objects, list))
       IN /\ pc' = [pc EXCEPT ![r] = IF filtered.raised THEN "raised"
                                     ELSE "filtered"]
          /\ ret' = [ret EXCEPT ![r] = IF filtered.raised THEN filtered ELSE @]
          /\ service_documents' =
                 [service_documents EXCEPT ![r] =
                     IF filtered.raised THEN <<>>
                     ELSE SelectSeq(list, LAMBDA a :
                                        InSeq(objects[a][1], filtered.value))]
    /\ UNCHANGED <<embedding, results, completion, context, no_services_found,
                   objects>>
    /\ ConcurrentFrame

\* rag.py line 61 for request r: the context made of the objects of the
\* request's list
ConcurrentPrepareContext(r) ==
    /\ pc[r] = "filtered"
    /\ LET docs == Deref(objects, LocalOf(service_documents, r))
       IN /\ context' = [context EXCEPT ![r] = _prepare_context(docs)[1]]
          /\ no_services_found' =
                 [no_services_found EXCEPT ![r] = _prepare_context(docs)[2]]
    /\ pc' = [pc EXCEPT ![r] = "context"]
    /\ UNCHANGED <<embedding, results, completion, service_documents, ret,
                   objects>>
    /\ ConcurrentFrame

\* rag.py line 62 for request r: the classification call of
\* _generate_response, which raises or returns the inner response
ConcurrentClassify(r) ==
    /\ pc[r] = "context"
    /\ \E classification \in ConcurrentClassifications :
          LET response == _generate_response(classification)
          IN /\ completion' = [completion EXCEPT ![r].classification =
                                                     classification]
             /\ pc' = [pc EXCEPT ![r] = IF response.raised THEN "raised"
                                        ELSE "classified"]
             /\ ret' = [ret EXCEPT ![r] = IF response.raised THEN response
                                          ELSE @]
    /\ UNCHANGED <<embedding, results, service_documents, context,
                   no_services_found, objects>>
    /\ ConcurrentFrame

\* rag.py lines 64-80 for request r: the response built from the inner
\* response, the objects of the request's list and the flag of line 61
ConcurrentRespond(r) ==
    /\ pc[r] = "classified"
    /\ LET response == _generate_response(completion[r].classification)
           outcome == BuildRecommendation(
                          response.value,
                          Deref(objects, LocalOf(service_documents, r)),
                          LocalOf(no_services_found, r))
       IN /\ pc' = [pc EXCEPT ![r] = IF outcome.raised THEN "raised" ELSE "done"]
          /\ ret' = [ret EXCEPT ![r] = outcome]
    /\ UNCHANGED <<embedding, results, completion, service_documents, context,
                   no_services_found, objects>>
    /\ ConcurrentFrame

NextConcurrent ==
    \E r \in Requests :
        \/ ConcurrentEmbed(r)
        \/ ConcurrentRerank(r)
        \/ ConcurrentRank(r)
        \/ ConcurrentFilter(r)
        \/ ConcurrentPrepareContext(r)
        \/ ConcurrentClassify(r)
        \/ ConcurrentRespond(r)

SpecConcurrent == InitConcurrent /\ [][NextConcurrent]_vars

\* what the request gets, run alone, from its embedding call and
\* _retrieve_and_rank_services
RetrievedAlone(r) ==
    RetrieveAlone(query[r], embedding[r], results[r], completion[r].rerank)

\* C28: whatever the interleaving of two generate calls on the shared
\* service, each call returns or raises what it would when run alone with
\* the same query and the same collaborator responses
C28_InterleavedRequestsAreIndependent ==
    \A r \in Requests :
        pc[r] \in {"done", "raised"} =>
            IF completion[r].classification = NoCompletion
            THEN /\ ret[r].raised
                 /\ ret[r] = RetrievedAlone(r)
            ELSE /\ ~RetrievedAlone(r).raised
                 /\ ret[r] = RespondAlone(RetrievedAlone(r).value,
                                          completion[r].classification)

\* request 1 has answered an emergency while request 2, whose
\* classification call returned another answer, has its response yet to
\* build
C28_Witness ==
    /\ pc[1] = "done" /\ pc[2] = "classified"
    /\ ret[1].value.is_emergency
    /\ completion[2].classification = LLMReturns(Some(<<"Overview:">>))
    /\ no_services_found[1] /\ no_services_found[2]

====
